---- MODULE Spec2Model ----
(***************************************************************************)
(* A model of the RFC 8941 structured-field codec of jcbhmr/go-fetch:      *)
(* TextParse and the parsers under it, TextSerialize and the serializers   *)
(* under it.                                                               *)
(*                                                                         *)
(* Strings are sequences of one-character strings.  A Go function that     *)
(* takes inputString *string and returns (value, err) is an operator that  *)
(* returns a record [st, val, rest]: st is "ok", "err" (a non-nil error)   *)
(* or "panic" (a run-time panic, index out of range or a failed type       *)
(* assertion), val the returned value and rest what *inputString holds     *)
(* when the function returns.  rest is kept on every path, because two     *)
(* callers discard the error and go on reading the input.                  *)
(*                                                                         *)
(* A Go value of type any is a record of one shape (AnyV) tagged with its  *)
(* dynamic type.  Token is an alias of string (type Token = string), so    *)
(* both carry the tag "string".  An int64 is a sign and a sequence of      *)
(* base-10 digits (the literals reach 10^15, beyond the model checker's     *)
(* integers); a float64 is fixed point: a sign, the digits of the integer  *)
(* part and the fraction in ten-thousandths.                               *)
(***************************************************************************)
EXTENDS Integers, Sequences, FiniteSets, TLC

VARIABLES
  op,          \* the last call made: "none", "TextParse", "AddWhitespace", ...
  inputBytes,  \* the input of the last parser call
  fieldType,   \* its field type
  parsed,      \* what it returned
  iterOrder,   \* the order in which a range over a returned map gave its keys
  built,       \* the members the input was written from, when it was
  inputValue,  \* the input of the last serializer call
  serialized,  \* what it returned
  calls,       \* the calls of TextParse in progress, each with its locals
  fetches      \* the calls of Fetch, each with its channel and goroutine

vars ==
  <<op, inputBytes, fieldType, parsed, iterOrder, built, inputValue, serialized,
    calls, fetches>>

---------------------------------------------------------------------------
(* Character classes *)

LCALPHA ==
  {"a","b","c","d","e","f","g","h","i","j","k","l","m",
   "n","o","p","q","r","s","t","u","v","w","x","y","z"}

UCALPHA ==
  {"A","B","C","D","E","F","G","H","I","J","K","L","M",
   "N","O","P","Q","R","S","T","U","V","W","X","Y","Z"}

ALPHA == LCALPHA \cup UCALPHA

DigitChars == <<"0","1","2","3","4","5","6","7","8","9">>

DIGIT == {DigitChars[i] : i \in 1..10}

(* rfc7230.TChar.  The grave accent, a tchar, is left out of the model's  *)
(* character universe: the module's lexer cannot hold it in a string.      *)
TChar ==
  {"!","#","$","%","&","'","*","+","-",".","^","_","|","~"}
    \cup DIGIT \cup ALPHA

(* The characters 0x20-0x7E that are in no class above, and the control    *)
(* characters the inputs use.                                              *)
OtherPrintable ==
  {" ","\"","(",")",",","/",":",";","<","=",">","?","@","[","\\","]","{","}"}

ControlChars == {"\t","\n","\r"}

(* Every character outside ControlChars is in 0x20-0x7E. *)
IsControl(c) == c \in ControlChars

DigitVal(c) == (CHOOSE i \in 1..10 : DigitChars[i] = c) - 1

DigitChar(d) == DigitChars[d + 1]

---------------------------------------------------------------------------
(* Strings *)

RECURSIVE TrimLeft(_, _)
TrimLeft(s, cutset) ==
  IF s # <<>> /\ Head(s) \in cutset THEN TrimLeft(Tail(s), cutset) ELSE s

RECURSIVE TrimRight(_, _)
TrimRight(s, cutset) ==
  IF s # <<>> /\ s[Len(s)] \in cutset
    THEN TrimRight(SubSeq(s, 1, Len(s) - 1), cutset)
    ELSE s

(* strings.Index(s, c) + 1 for a one-character c: 0 when c is not in s. *)
Index(s, c) ==
  IF \E i \in 1..Len(s) : s[i] = c
    THEN CHOOSE i \in 1..Len(s) : s[i] = c /\ \A j \in 1..(i - 1) : s[j] # c
    ELSE 0

Contains(s, c) == \E i \in 1..Len(s) : s[i] = c

RECURSIVE Repeat(_, _)
Repeat(c, n) == IF n <= 0 THEN <<>> ELSE <<c>> \o Repeat(c, n - 1)

---------------------------------------------------------------------------
(* Numbers: a magnitude is a sequence of digits 0..9, most significant     *)
(* first, without leading zeros (zero is <<0>>).                           *)

RECURSIVE Canon(_)
Canon(ds) == IF Len(ds) > 1 /\ Head(ds) = 0 THEN Canon(Tail(ds)) ELSE ds

MagOfString(s) == Canon([i \in 1..Len(s) |-> DigitVal(s[i])])

StringOfMag(m) == [i \in 1..Len(m) |-> DigitChar(m[i])]

IsZeroMag(m) == m = <<0>>

RECURSIVE LexLess(_, _)
LexLess(a, b) ==
  IF a = <<>> THEN FALSE
  ELSE IF Head(a) # Head(b) THEN Head(a) < Head(b)
  ELSE LexLess(Tail(a), Tail(b))

(* a < b for canonical magnitudes *)
MagLess(a, b) ==
  IF Len(a) # Len(b) THEN Len(a) < Len(b) ELSE LexLess(a, b)

RECURSIVE MagInc(_)
MagInc(m) ==
  IF m = <<>> THEN <<1>>
  ELSE IF m[Len(m)] < 9
    THEN SubSeq(m, 1, Len(m) - 1) \o <<m[Len(m)] + 1>>
    ELSE MagInc(SubSeq(m, 1, Len(m) - 1)) \o <<0>>

---------------------------------------------------------------------------
(* Go values *)

AnyV(t, neg, n, frac, s, b, items) ==
  [t |-> t, neg |-> neg, n |-> n, frac |-> frac, s |-> s, b |-> b,
   items |-> items]

NilV == AnyV("nil", FALSE, <<>>, 0, <<>>, FALSE, <<>>)

IntV(neg, mag) == AnyV("int64", neg /\ ~IsZeroMag(mag), mag, 0, <<>>, FALSE, <<>>)

(* -0.0 and 0.0 compare equal in Go and no code here tells them apart. *)
DecV(neg, mag, frac) ==
  AnyV("float64", neg /\ ~(IsZeroMag(mag) /\ frac = 0), mag, frac, <<>>,
       FALSE, <<>>)

StrV(s) == AnyV("string", FALSE, <<>>, 0, s, FALSE, <<>>)

BytesV(bs) == AnyV("bytes", FALSE, bs, 0, <<>>, FALSE, <<>>)

BoolV(b) == AnyV("bool", FALSE, <<>>, 0, <<>>, b, <<>>)

InnerListV(items) == AnyV("InnerList", FALSE, <<>>, 0, <<>>, FALSE, items)

(* tuple.T2 / lo.Tuple2 *)
T2(a, b) == [A |-> a, B |-> b]

(* What a function returns, and what it leaves in *inputString.  subErr   *)
(* is a history flag: some parser called on the way returned an error.     *)
Ret(st, val, rest, subErr) ==
  [st |-> st, val |-> val, rest |-> rest, subErr |-> subErr]

Ok(val, rest) == Ret("ok", val, rest, FALSE)

Err(val, rest) == Ret("err", val, rest, TRUE)

Panic(rest) == Ret("panic", NilV, rest, FALSE)

---------------------------------------------------------------------------
(* encoding/base64, StdEncoding: the padded alphabet of RFC 4648 section 4 *)

B64Chars ==
  <<"A","B","C","D","E","F","G","H","I","J","K","L","M",
    "N","O","P","Q","R","S","T","U","V","W","X","Y","Z",
    "a","b","c","d","e","f","g","h","i","j","k","l","m",
    "n","o","p","q","r","s","t","u","v","w","x","y","z",
    "0","1","2","3","4","5","6","7","8","9","+","/">>

B64Alphabet == {B64Chars[i] : i \in 1..64}

B64Val(c) == (CHOOSE i \in 1..64 : B64Chars[i] = c) - 1

(* DecodeString: whole quanta of four characters; "=" only as the last one *)
(* or two characters of the last quantum; anything else is an error.      *)
(* Returns [ok, bytes].                                                    *)
RECURSIVE B64Decode(_)
B64Decode(s) ==
  IF s = <<>> THEN [ok |-> TRUE, bytes |-> <<>>]
  ELSE IF Len(s) < 4 \/ s[1] \notin B64Alphabet \/ s[2] \notin B64Alphabet
    THEN [ok |-> FALSE, bytes |-> <<>>]
  ELSE
    LET v1 == B64Val(s[1])
        v2 == B64Val(s[2])
        b1 == v1 * 4 + (v2 \div 16)
    IN
    IF s[3] = "=" THEN
      IF s[4] = "=" /\ Len(s) = 4
        THEN [ok |-> TRUE, bytes |-> <<b1>>]
        ELSE [ok |-> FALSE, bytes |-> <<>>]
    ELSE IF s[3] \notin B64Alphabet THEN [ok |-> FALSE, bytes |-> <<>>]
    ELSE
      LET v3 == B64Val(s[3])
          b2 == (v2 % 16) * 16 + (v3 \div 4)
      IN
      IF s[4] = "=" THEN
        IF Len(s) = 4
          THEN [ok |-> TRUE, bytes |-> <<b1, b2>>]
          ELSE [ok |-> FALSE, bytes |-> <<>>]
      ELSE IF s[4] \notin B64Alphabet THEN [ok |-> FALSE, bytes |-> <<>>]
      ELSE
        LET b3 == (v3 % 4) * 64 + B64Val(s[4])
            more == B64Decode(SubSeq(s, 5, Len(s)))
        IN [ok |-> more.ok,
            bytes |-> IF more.ok THEN <<b1, b2, b3>> \o more.bytes ELSE <<>>]

RECURSIVE B64Encode(_)
B64Encode(bs) ==
  IF bs = <<>> THEN <<>>
  ELSE IF Len(bs) = 1 THEN
    <<B64Chars[(bs[1] \div 4) + 1], B64Chars[(bs[1] % 4) * 16 + 1], "=", "=">>
  ELSE IF Len(bs) = 2 THEN
    <<B64Chars[(bs[1] \div 4) + 1],
      B64Chars[(bs[1] % 4) * 16 + (bs[2] \div 16) + 1],
      B64Chars[(bs[2] % 16) * 4 + 1], "=">>
  ELSE
    <<B64Chars[(bs[1] \div 4) + 1],
      B64Chars[(bs[1] % 4) * 16 + (bs[2] \div 16) + 1],
      B64Chars[(bs[2] % 16) * 4 + (bs[3] \div 64) + 1],
      B64Chars[(bs[3] % 64) + 1]>> \o B64Encode(SubSeq(bs, 4, Len(bs)))

---------------------------------------------------------------------------
(* strconv *)

MaxInt64Mag == <<9,2,2,3,3,7,2,0,3,6,8,5,4,7,7,5,8,0,7>>

(* strconv.ParseInt(s, 10, 64) of a string of digits: [ok, mag] *)
ParseInt(s) ==
  LET m == MagOfString(s)
  IN [ok |-> ~MagLess(MaxInt64Mag, m), mag |-> m]

(* The fraction digits of a literal as ten-thousandths (digits after the   *)
(* fourth are below the model's resolution).                               *)
FracOfString(f) ==
  LET d(i) == IF i <= Len(f) THEN DigitVal(f[i]) ELSE 0
  IN d(1) * 1000 + d(2) * 100 + d(3) * 10 + d(4)

(* strconv.ParseFloat(s, 64) of a string of digits and "." that starts     *)
(* with a digit: a syntax error when it holds two points.                  *)
(* [ok, mag, frac]                                                         *)
ParseFloat(s) ==
  LET dot == Index(s, ".")
      ip == IF dot = 0 THEN s ELSE SubSeq(s, 1, dot - 1)
      fp == IF dot = 0 THEN <<>> ELSE SubSeq(s, dot + 1, Len(s))
  IN [ok |-> ~Contains(fp, "."),
      mag |-> IF Contains(fp, ".") THEN <<0>> ELSE MagOfString(ip),
      frac |-> IF Contains(fp, ".") THEN 0 ELSE FracOfString(fp)]

---------------------------------------------------------------------------
(* 4.2.3.3. Parsing a Key *)

KeyStartChars == LCALPHA \cup {"*"}

(* the class of the loop's regexp, [a-z0-9_\-.] *)
KeyRestChars == LCALPHA \cup DIGIT \cup {"_", "-", "."}

RECURSIVE ParseKeyLoop(_, _)
ParseKeyLoop(in, outputString) ==
  IF in = <<>> THEN Ok(outputString, in)
  ELSE IF Head(in) \notin KeyRestChars THEN Ok(outputString, in)
  ELSE ParseKeyLoop(Tail(in), Append(outputString, Head(in)))

ParseKey(in) ==
  IF ~(in # <<>> /\ Head(in) \in KeyStartChars)
    THEN Err(<<>>, in)
    ELSE ParseKeyLoop(in, <<>>)

---------------------------------------------------------------------------
(* 4.2.4. Parsing an Integer or Decimal *)

IntegerMaxChars == 15

DecimalMaxChars == 16

DecimalMaxIntegerChars == 12

DecimalMaxTailChars == 3

NumberEnd(in, type, inputNumber, neg) ==
  IF type = "integer" THEN
    LET num == ParseInt(inputNumber)
    IN IF num.ok THEN Ok(IntV(neg, num.mag), in) ELSE Err(NilV, in)
  ELSE IF inputNumber[Len(inputNumber)] = "." THEN Err(NilV, in)
  ELSE IF Len(inputNumber) - (Index(inputNumber, ".") - 1) > DecimalMaxTailChars
    THEN Err(NilV, in)
  ELSE
    LET num == ParseFloat(inputNumber)
    IN IF num.ok THEN Ok(DecV(neg, num.mag, num.frac), in) ELSE Err(NilV, in)

RECURSIVE NumberLoop(_, _, _, _)

(* steps 7.5 and 7.6 with the bound met failing as well *)
TooLongAtLimit(type, inputNumber) ==
  \/ type = "integer" /\ Len(inputNumber) >= IntegerMaxChars
  \/ type = "decimal" /\ Len(inputNumber) >= DecimalMaxChars

(* steps 7.5 and 7.6 *)
TooLong(type, inputNumber) ==
  \/ type = "integer" /\ Len(inputNumber) > IntegerMaxChars
  \/ type = "decimal" /\ Len(inputNumber) > DecimalMaxChars

(* the end of a turn of the loop where a character was appended *)
(* step 7.4 with nothing put back *)
PutBackDropped(char, inputString) == inputString

(* step 7.4: char, consumed in step 7.1, goes back on the front *)
PutBack(char, inputString) == <<char>> \o inputString

NumberNext(in, type, inputNumber, neg) ==
  IF TooLong(type, inputNumber) THEN Err(NilV, in)
  ELSE NumberLoop(in, type, inputNumber, neg)

(* the loop of step 7, at its test; a "." is appended whatever the type is *)
NumberLoop(in, type, inputNumber, neg) ==
  IF in = <<>> THEN NumberEnd(in, type, inputNumber, neg)
  ELSE IF Head(in) \in DIGIT
    THEN NumberNext(Tail(in), type, Append(inputNumber, Head(in)), neg)
  ELSE IF Head(in) = "." THEN
    IF Len(inputNumber) > DecimalMaxIntegerChars THEN Err(NilV, Tail(in))
    ELSE NumberNext(Tail(in), "decimal", Append(inputNumber, Head(in)), neg)
  ELSE NumberEnd(PutBack(Head(in), Tail(in)), type, inputNumber, neg)

ParseNumber(in) ==
  IF in = <<>> THEN Panic(in)
  ELSE
    LET neg == Head(in) = "-"
        in1 == IF neg THEN Tail(in) ELSE in
    IN
    IF in1 = <<>> THEN Err(NilV, in1)
    ELSE IF Head(in1) \notin DIGIT THEN Err(NilV, in1)
    ELSE NumberLoop(in1, "integer", <<>>, neg)

---------------------------------------------------------------------------
(* 4.2.5. Parsing a String *)

RECURSIVE StringLoop(_, _)
StringLoop(in, outputString) ==
  IF in = <<>> THEN Err(StrV(<<>>), in)
  ELSE
    LET char == Head(in)
        rest == Tail(in)
    IN
    IF char = "\\" THEN
      IF rest = <<>> THEN Err(StrV(<<>>), rest)
      ELSE IF Head(rest) # "\"" /\ Head(rest) # "\\"
        THEN Err(StrV(<<>>), Tail(rest))
      ELSE StringLoop(Tail(rest), Append(outputString, Head(rest)))
    ELSE IF char = "\"" THEN Ok(StrV(outputString), rest)
    ELSE IF IsControl(char) THEN Err(StrV(<<>>), rest)
    ELSE StringLoop(rest, Append(outputString, char))

ParseString(in) ==
  IF in = <<>> THEN Panic(in)
  ELSE IF Head(in) # "\"" THEN Err(StrV(<<>>), in)
  ELSE StringLoop(Tail(in), <<>>)

---------------------------------------------------------------------------
(* 4.2.6. Parsing a Token *)

TokenStartChars == ALPHA \cup {"*"}

TokenRestChars == TChar \cup {":", "/"}

RECURSIVE TokenLoop(_, _)
TokenLoop(in, outputString) ==
  IF in = <<>> THEN Ok(StrV(outputString), in)
  ELSE IF Head(in) \notin TokenRestChars THEN Ok(StrV(outputString), in)
  ELSE TokenLoop(Tail(in), Append(outputString, Head(in)))

ParseToken(in) ==
  IF ~(in # <<>> /\ Head(in) \in TokenStartChars)
    THEN Err(StrV(<<>>), in)
    ELSE TokenLoop(in, <<>>)

---------------------------------------------------------------------------
(* 4.2.7. Parsing a Byte Sequence *)

BinaryChars == B64Alphabet \cup {"="}

ParseBinary(in) ==
  IF in = <<>> THEN Panic(in)
  ELSE IF Head(in) # ":" THEN Err(BytesV(<<>>), in)
  ELSE
    LET in1 == Tail(in)
        colon == Index(in1, ":")
        b64Content == SubSeq(in1, 1, colon - 1)
        rest == SubSeq(in1, colon + 1, Len(in1))
        binaryContent == B64Decode(b64Content)
    IN
    IF colon = 0 THEN Err(BytesV(<<>>), in1)
    ELSE IF \E i \in 1..Len(b64Content) : b64Content[i] \notin BinaryChars
      THEN Err(BytesV(<<>>), rest)
    ELSE IF ~binaryContent.ok THEN Err(BytesV(<<>>), rest)
    ELSE Ok(BytesV(binaryContent.bytes), rest)

---------------------------------------------------------------------------
(* 4.2.8. Parsing a Boolean *)

ParseBoolean(in) ==
  IF in = <<>> THEN Panic(in)
  ELSE IF Head(in) # "?" THEN Err(BoolV(FALSE), in)
  ELSE
    LET in1 == Tail(in)
    IN
    IF in1 = <<>> THEN Panic(in1)
    ELSE IF Head(in1) = "1" THEN Ok(BoolV(TRUE), Tail(in1))
    ELSE IF Head(in1) = "0" THEN Ok(BoolV(FALSE), Tail(in1))
    ELSE Err(BoolV(FALSE), in1)

---------------------------------------------------------------------------
(* 4.2.3.1. Parsing a Bare Item *)

BareItemNumberStart == DIGIT \cup {"-"}

(* the class of the regexp that guards ParseToken, [a-z*] *)
BareItemTokenStart == LCALPHA \cup {"*"}

ParseBareItem(in) ==
  IF in # <<>> /\ Head(in) \in BareItemNumberStart THEN ParseNumber(in)
  ELSE IF in = <<>> THEN Panic(in)
  ELSE IF Head(in) = "\"" THEN ParseString(in)
  ELSE IF Head(in) \in BareItemTokenStart THEN ParseToken(in)
  ELSE IF Head(in) = ":" THEN ParseBinary(in)
  ELSE IF Head(in) = "?" THEN ParseBoolean(in)
  ELSE Err(NilV, in)

---------------------------------------------------------------------------
(* 4.2.3.2. Parsing Parameters *)

SP == {" "}

OWS == {" ", "\t"}

(* steps 2.7 and 2.8 without the search: the entry is appended *)
UpsertAppend(parameters, key, value) == Append(parameters, T2(key, value))

(* overwrite the first entry with the key, else append *)
Upsert(parameters, key, value) ==
  IF \E i \in 1..Len(parameters) : parameters[i].A = key
    THEN LET index == CHOOSE i \in 1..Len(parameters) :
                        /\ parameters[i].A = key
                        /\ \A j \in 1..(i - 1) : parameters[j].A # key
         IN [parameters EXCEPT ![index] = T2(key, value)]
    ELSE Append(parameters, T2(key, value))

RECURSIVE ParamLoop(_, _, _)
RECURSIVE ParamKey(_, _, _)
RECURSIVE ParamValue(_, _, _, _)

(* the loop of step 2, at its test *)
ParamLoop(in, parameters, sub) ==
  IF in = <<>> THEN Ret("ok", parameters, in, sub)
  ELSE IF Head(in) # ";" THEN Ret("ok", parameters, in, sub)
  ELSE ParamKey(parameters, sub, ParseKey(TrimLeft(Tail(in), SP)))

(* steps 2.4 to 2.6, key being what ParseKey returned; the first           *)
(* character of the rest is read without a length test                     *)
ParamKey(parameters, sub, key) ==
  IF key.st # "ok" THEN Ret(key.st, NilV, key.rest, TRUE)
  ELSE IF key.rest = <<>> THEN Ret("panic", NilV, key.rest, sub)
  ELSE IF Head(key.rest) = "="
    THEN ParamValue(parameters, sub, key.val, ParseBareItem(Tail(key.rest)))
  ELSE ParamLoop(key.rest, Upsert(parameters, key.val, BoolV(TRUE)), sub)

(* steps 2.6.2 to 2.8, value being what ParseBareItem returned; its error  *)
(* is assigned and never tested                                            *)
ParamValue(parameters, sub, key, value) ==
  IF value.st = "panic" THEN Ret("panic", NilV, value.rest, sub)
  ELSE ParamLoop(value.rest, Upsert(parameters, key, value.val),
                 sub \/ value.st = "err")

ParseParam(in) == ParamLoop(in, <<>>, FALSE)

---------------------------------------------------------------------------
(* 4.2.3. Parsing an Item *)

(* step 3, after both parses succeeded *)
ItemResult(bareItem, parameters) ==
  IF parameters.st # "ok"
    THEN Ret(parameters.st, T2(NilV, <<>>), parameters.rest, parameters.subErr)
  ELSE Ret("ok", T2(bareItem.val, parameters.val), parameters.rest,
           parameters.subErr)

(* step 2, bareItem being what ParseBareItem returned *)
ItemParams(bareItem) ==
  IF bareItem.st # "ok"
    THEN Ret(bareItem.st, T2(NilV, <<>>), bareItem.rest, bareItem.subErr)
  ELSE ItemResult(bareItem, ParseParam(bareItem.rest))

ParseItem(in) == ItemParams(ParseBareItem(in))

---------------------------------------------------------------------------
(* 4.2.1.2. Parsing an Inner List *)

RECURSIVE InnerListLoop(_, _, _)
RECURSIVE InnerListStep(_, _, _)
RECURSIVE InnerListItem(_, _, _)

(* step 3.2, parameters being what ParseParam returned after the ")" *)
InnerListEnd(innerList, sub, parameters) ==
  IF parameters.st # "ok"
    THEN Ret(parameters.st, T2(NilV, <<>>), parameters.rest,
             sub \/ parameters.subErr)
  ELSE Ret("ok", T2(InnerListV(innerList), parameters.val), parameters.rest,
           sub \/ parameters.subErr)

(* the loop of step 3, at its test *)
InnerListLoop(in, innerList, sub) ==
  IF in = <<>> THEN Ret("err", T2(NilV, <<>>), in, TRUE)
  ELSE InnerListStep(TrimLeft(in, SP), innerList, sub)

(* steps 3.2 and 3.3 on the input without its leading spaces; its first    *)
(* character is read without a length test                                 *)
InnerListStep(in, innerList, sub) ==
  IF in = <<>> THEN Ret("panic", NilV, in, sub)
  ELSE IF Head(in) = ")"
    THEN InnerListEnd(innerList, sub, ParseParam(Tail(in)))
  ELSE InnerListItem(innerList, sub, ParseItem(in))

(* steps 3.4 and 3.5, item being what ParseItem returned; its error is     *)
(* discarded, and the first character of the rest is read without a length *)
(* test                                                                    *)
InnerListItem(innerList, sub, item) ==
  IF item.st = "panic" THEN Ret("panic", NilV, item.rest, sub)
  ELSE IF item.rest = <<>>
    THEN Ret("panic", NilV, item.rest, sub \/ item.subErr)
  ELSE IF Head(item.rest) # " " /\ Head(item.rest) # ")"
    THEN Ret("err", T2(NilV, <<>>), item.rest, TRUE)
  ELSE InnerListLoop(item.rest, Append(innerList, item.val),
                     sub \/ item.subErr)

ParseInnerList(in) ==
  IF in = <<>> THEN Panic(in)
  ELSE IF Head(in) # "(" THEN Err(T2(NilV, <<>>), Tail(in))
  ELSE InnerListLoop(Tail(in), <<>>, FALSE)

---------------------------------------------------------------------------
(* 4.2.1.1. Parsing an Item or Inner List *)

ParseItemOrList(in) ==
  IF in = <<>> THEN Panic(in)
  ELSE IF Head(in) = "(" THEN ParseInnerList(in)
  ELSE ParseItem(in)

---------------------------------------------------------------------------
(* 4.2.1. Parsing a List *)

RECURSIVE ListLoop(_, _, _)
RECURSIVE ListMember(_, _, _)
RECURSIVE ListComma(_, _, _)
RECURSIVE ListNext(_, _, _)

(* the loop of step 2, at its test *)
ListLoop(in, members, sub) ==
  IF in = <<>> THEN Ret("ok", members, in, sub)
  ELSE ListMember(members, sub, ParseItemOrList(in))

(* steps 2.1 to 2.3, res being what ParseItemOrList returned *)
ListMember(members, sub, res) ==
  IF res.st # "ok" THEN Ret(res.st, NilV, res.rest, sub \/ res.subErr)
  ELSE ListComma(TrimLeft(res.rest, OWS), Append(members, res.val),
                 sub \/ res.subErr)

(* steps 2.4 to 2.6 on the input without its leading OWS *)
ListComma(in, members, sub) ==
  IF in = <<>> THEN Ret("ok", members, in, sub)
  ELSE IF Head(in) # "," THEN Ret("err", NilV, Tail(in), TRUE)
  ELSE ListNext(TrimLeft(Tail(in), OWS), members, sub)

(* step 2.7: a trailing comma fails *)
ListNext(in, members, sub) ==
  IF in = <<>> THEN Ret("err", NilV, in, TRUE)
  ELSE ListLoop(in, members, sub)

ParseList(in) == ListLoop(in, <<>>, FALSE)

---------------------------------------------------------------------------
(* 4.2.2. Parsing a Dictionary.  The result is a Go map: a function from   *)
(* the keys to the members, with no order.                                 *)

MapPut(dictionary, key, member) ==
  [k \in (DOMAIN dictionary) \cup {key} |->
     IF k = key THEN member ELSE dictionary[k]]

RECURSIVE DictionaryLoop(_, _, _)
RECURSIVE DictionaryKey(_, _, _)
RECURSIVE DictionaryMember(_, _, _, _)
RECURSIVE DictionaryComma(_, _, _)
RECURSIVE DictionaryNext(_, _, _)

(* step 2.3: the member is the Boolean true with the parameters parsed *)
TrueMember(parameters) ==
  [parameters EXCEPT !.val = T2(BoolV(TRUE), parameters.val)]

(* the loop of step 2, at its test *)
DictionaryLoop(in, dictionary, sub) ==
  IF in = <<>> THEN Ret("ok", dictionary, in, sub)
  ELSE DictionaryKey(dictionary, sub, ParseKey(in))

(* steps 2.1 to 2.3, thisKey being what ParseKey returned; the first       *)
(* character of the rest is read without a length test                     *)
DictionaryKey(dictionary, sub, thisKey) ==
  IF thisKey.st # "ok" THEN Ret(thisKey.st, NilV, thisKey.rest, TRUE)
  ELSE IF thisKey.rest = <<>> THEN Ret("panic", NilV, thisKey.rest, sub)
  ELSE IF Head(thisKey.rest) = "="
    THEN DictionaryMember(dictionary, sub, thisKey.val,
                          ParseItemOrList(Tail(thisKey.rest)))
  ELSE DictionaryMember(dictionary, sub, thisKey.val,
                        TrueMember(ParseParam(thisKey.rest)))

(* steps 2.4 and 2.5, res being the member parsed *)
DictionaryMember(dictionary, sub, key, res) ==
  IF res.st # "ok" THEN Ret(res.st, NilV, res.rest, sub \/ res.subErr)
  ELSE DictionaryComma(TrimLeft(res.rest, OWS),
                       MapPut(dictionary, key, res.val), sub \/ res.subErr)

(* steps 2.6 to 2.8 on the input without its leading OWS *)
DictionaryComma(in, dictionary, sub) ==
  IF in = <<>> THEN Ret("ok", dictionary, in, sub)
  ELSE IF Head(in) # "," THEN Ret("err", NilV, Tail(in), TRUE)
  ELSE DictionaryNext(TrimLeft(Tail(in), OWS), dictionary, sub)

(* step 2.9: a trailing comma fails *)
DictionaryNext(in, dictionary, sub) ==
  IF in = <<>> THEN Ret("err", NilV, in, TRUE)
  ELSE DictionaryLoop(in, dictionary, sub)

ParseDictionary(in) == DictionaryLoop(in, <<>>, FALSE)

---------------------------------------------------------------------------
(* 4.2. Parsing Structured Fields.  Every character of the model is ASCII, *)
(* so step 1 (fail on a non-ASCII byte) never fails here.                  *)

FieldTypes == {"list", "dictionary", "item"}

(* steps 3 to 5: the parser the field type selects *)
Dispatch(in, type) ==
  IF type = "list" THEN ParseList(in)
  ELSE IF type = "dictionary" THEN ParseDictionary(in)
  ELSE IF type = "item" THEN ParseItem(in)
  ELSE Panic(in)

(* steps 2 to 5 *)
TextParseDispatch(inputString, type) == Dispatch(TrimLeft(inputString, SP), type)

(* step 7 left out: the value is returned whatever is left of the input    *)
RequireEmptySkipped(in, output) == Ret("ok", output.val, in, output.subErr)

(* step 7: what is left of the input without its leading spaces is empty,  *)
(* or parsing fails                                                        *)
RequireEmpty(in, output) ==
  IF in # <<>> THEN Ret("err", NilV, in, TRUE)
  ELSE Ret("ok", output.val, in, output.subErr)

(* steps 6 to 8, output being what the parser returned *)
Finish(output) ==
  IF output.st # "ok" THEN Ret(output.st, NilV, output.rest, output.subErr)
  ELSE RequireEmpty(TrimLeft(output.rest, SP), output)

TextParse(inputString, type) == Finish(TextParseDispatch(inputString, type))

---------------------------------------------------------------------------
(* 4.1. Serializing Structured Fields.  A serializer returns [st, out]:    *)
(* st as for the parsers, out the string returned with a nil error.        *)

SOk(out) == [st |-> "ok", out |-> out]

SErr == [st |-> "err", out |-> <<>>]

SPanic == [st |-> "panic", out |-> <<>>]

(* 4.1.1.3. Serializing a Key *)

SerKeyChars == LCALPHA \cup DIGIT \cup {"_", "-", ".", "*"}

SerKey(inputKey) ==
  IF \E i \in 1..Len(inputKey) : inputKey[i] \notin SerKeyChars THEN SErr
  ELSE IF inputKey = <<>> THEN SPanic
  ELSE IF Head(inputKey) \notin KeyStartChars THEN SErr
  ELSE SOk(inputKey)

(* 4.1.4. Serializing an Integer *)

(* 999999999999999 *)
MaxIntegerMag == [i \in 1..15 |-> 9]

FormatInt(mag) == StringOfMag(mag)

SerInteger(inputInteger) ==
  IF inputInteger.t # "int64" THEN SErr
  ELSE IF MagLess(MaxIntegerMag, inputInteger.n) THEN SErr
  ELSE SOk((IF inputInteger.neg THEN <<"-">> ELSE <<>>)
             \o FormatInt(inputInteger.n))

(* 4.1.5. Serializing a Decimal *)

(* 999999999999 *)
MaxDecimalIntegerMag == [i \in 1..12 |-> 9]

(* rounding with a half always rounded away from zero *)
RoundHalfAwayFromZero(mag, frac) ==
  IF (frac + 5) \div 10 = 1000
    THEN [mag |-> Canon(MagInc(mag)), th |-> 0]
    ELSE [mag |-> mag, th |-> (frac + 5) \div 10]

(* math.RoundToEven(value * 1000) / 1000 of |value| = mag + frac/10000:    *)
(* [mag, th], th in thousandths                                            *)
RoundToThousandths(mag, frac) ==
  LET t0 == frac \div 10
      r == frac % 10
      t == IF r < 5 THEN t0
           ELSE IF r > 5 THEN t0 + 1
           ELSE IF t0 % 2 = 0 THEN t0 ELSE t0 + 1
  IN IF t = 1000 THEN [mag |-> Canon(MagInc(mag)), th |-> 0]
     ELSE [mag |-> mag, th |-> t]

(* strconv.FormatFloat(fractional, 'f', -1, 64) of th/1000, 0 < th < 1000: *)
(* "0." and the shortest digits                                            *)
FormatFloat(th) ==
  <<"0", ".">>
    \o TrimRight(<<DigitChar(th \div 100), DigitChar((th \div 10) % 10),
                   DigitChar(th % 10)>>, {"0"})

SerDecimal(inputDecimal) ==
  IF inputDecimal.t # "float64" THEN SErr
  ELSE
    LET value == RoundToThousandths(inputDecimal.n, inputDecimal.frac)
        isZero == IsZeroMag(value.mag) /\ value.th = 0
        neg == inputDecimal.neg /\ ~isZero
    IN
    IF ~neg /\ (\/ MagLess(MaxDecimalIntegerMag, value.mag)
                \/ (value.mag = MaxDecimalIntegerMag /\ value.th > 0))
      THEN SErr
    ELSE SOk((IF neg THEN <<"-">> ELSE <<>>)
               \o (IF IsZeroMag(value.mag) THEN <<"0">> ELSE FormatInt(value.mag))
               \o <<".">>
               \o (IF value.th = 0
                     THEN <<"0">>
                     ELSE TrimRight(FormatFloat(value.th), {"0"})))

(* 4.1.6. Serializing a String *)

(* step 4.1 for DQUOTE only: a backslash is written as it is *)
RECURSIVE EscapeQuoteOnly(_)
EscapeQuoteOnly(value) ==
  IF value = <<>> THEN <<>>
  ELSE (IF Head(value) = "\""
          THEN <<"\\", Head(value)>>
          ELSE <<Head(value)>>) \o EscapeQuoteOnly(Tail(value))

RECURSIVE Escape(_)
Escape(value) ==
  IF value = <<>> THEN <<>>
  ELSE (IF Head(value) = "\\" \/ Head(value) = "\""
          THEN <<"\\", Head(value)>>
          ELSE <<Head(value)>>) \o Escape(Tail(value))

SerString(inputString) ==
  IF inputString.t # "string" THEN SErr
  ELSE IF \E i \in 1..Len(inputString.s) : IsControl(inputString.s[i]) THEN SErr
  ELSE SOk(<<"\"">> \o Escape(inputString.s) \o <<"\"">>)

(* 4.1.7. Serializing a Token *)

SerToken(inputToken) ==
  IF inputToken = <<>> THEN SPanic
  ELSE IF Head(inputToken) \notin TokenStartChars THEN SErr
  ELSE IF \E i \in 2..Len(inputToken) : inputToken[i] \notin TokenRestChars
    THEN SErr
  ELSE SOk(inputToken)

(* 4.1.8. Serializing a Byte Sequence *)

SerByteSequence(inputBytes_) ==
  IF inputBytes_.t # "bytes" THEN SErr
  ELSE SOk(<<":">> \o B64Encode(inputBytes_.n) \o <<":">>)

(* 4.1.9. Serializing a Boolean *)

SerBoolean(inputBoolean) ==
  IF inputBoolean.t # "bool" THEN SErr
  ELSE SOk(<<"?">> \o (IF inputBoolean.b THEN <<"1">> ELSE <<>>)
                   \o (IF ~inputBoolean.b THEN <<"0">> ELSE <<>>))

(* 4.1.3.1. Serializing a Bare Item.  Token is an alias of string, so the  *)
(* type switch takes a token at its third case and never reaches SerToken. *)

SerBareItem(inputItem) ==
  IF inputItem.t = "int64" THEN SerInteger(inputItem)
  ELSE IF inputItem.t = "float64" THEN SerDecimal(inputItem)
  ELSE IF inputItem.t = "string" THEN SerString(inputItem)
  ELSE IF inputItem.t = "bytes" THEN SerByteSequence(inputItem)
  ELSE IF inputItem.t = "bool" THEN SerBoolean(inputItem)
  ELSE SErr

(* 4.1.1.2. Serializing Parameters *)

(* one serialization after another: the first that fails is returned, and *)
(* what follows it is not run                                              *)
SCat(first, second) ==
  IF first.st # "ok" THEN first
  ELSE IF second.st # "ok" THEN second
  ELSE SOk(first.out \o second.out)

IsTrue(value) == value.t = "bool" /\ value.b

(* steps 2.1 to 2.3: one parameter *)
SerParam(paramKey, paramValue) ==
  SCat(SCat(SOk(<<";">>), SerKey(paramKey)),
       IF IsTrue(paramValue)
         THEN SOk(<<>>)
         ELSE SCat(SOk(<<"=">>), SerBareItem(paramValue)))

RECURSIVE SerParams(_)
SerParams(inputParameters) ==
  IF inputParameters = <<>> THEN SOk(<<>>)
  ELSE SCat(SerParam(Head(inputParameters).A, Head(inputParameters).B),
            SerParams(Tail(inputParameters)))

(* 4.1.3. Serializing an Item *)

SerItem(bareItem, itemParameters) ==
  SCat(SerBareItem(bareItem), SerParams(itemParameters))

(* 4.1.1.1. Serializing an Inner List *)

RECURSIVE SerInnerListItems(_)
SerInnerListItems(innerList) ==
  IF innerList = <<>> THEN SOk(<<>>)
  ELSE SCat(SCat(SerItem(Head(innerList).A, Head(innerList).B),
                 SOk(IF Len(innerList) > 1 THEN <<" ">> ELSE <<>>)),
            SerInnerListItems(Tail(innerList)))

SerInnerList(innerList, listParameters) ==
  SCat(SCat(SCat(SOk(<<"(">>), SerInnerListItems(innerList)), SOk(<<")">>)),
       SerParams(listParameters))

(* 4.1.1. Serializing a List.  A member is taken for an inner list when    *)
(* its dynamic type is []any, and is then asserted to be an InnerList, a   *)
(* slice of tuples: the assertion panics.  A member that is an InnerList   *)
(* goes to SerItem.  The separator is written in the item branch only.     *)

RECURSIVE SerList(_)
SerList(inputList) ==
  IF inputList = <<>> THEN SOk(<<>>)
  ELSE IF Head(inputList).A.t = "anyslice" THEN SPanic
  ELSE SCat(SCat(SerItem(Head(inputList).A, Head(inputList).B),
                 SOk(IF Len(inputList) > 1 THEN <<",", " ">> ELSE <<>>)),
            SerList(Tail(inputList)))

(* 4.1.2. Serializing a Dictionary *)

(* steps 2.2 and 2.3: the member after its key *)
SerMember(memberValue, parameters) ==
  IF IsTrue(memberValue) THEN SerParams(parameters)
  ELSE SCat(SOk(<<"=">>),
            IF memberValue.t = "InnerList"
              THEN SerInnerList(memberValue.items, parameters)
              ELSE SerItem(memberValue, parameters))

RECURSIVE SerDictionary(_)
SerDictionary(inputDictionary) ==
  IF inputDictionary = <<>> THEN SOk(<<>>)
  ELSE SCat(SCat(SCat(SerKey(Head(inputDictionary).A),
                      SerMember(Head(inputDictionary).B.A,
                                Head(inputDictionary).B.B)),
                 SOk(IF Len(inputDictionary) > 1 THEN <<",", " ">> ELSE <<>>)),
            SerDictionary(Tail(inputDictionary)))

(* The structures TextSerialize takes: a List, a Dictionary, an Item, or a *)
(* value of another type.                                                  *)

TopV(t, list, dict, item) ==
  [t |-> t, list |-> list, dict |-> dict, item |-> item]

ListV(members) == TopV("List", members, <<>>, T2(NilV, <<>>))

DictionaryV(members) == TopV("Dictionary", <<>>, members, T2(NilV, <<>>))

ItemV(item) == TopV("Item", <<>>, <<>>, item)

OtherV == TopV("other", <<>>, <<>>, T2(NilV, <<>>))

(* TextSerialize returns ([]byte, error): [st, isNil, bytes] *)
SRet(st, isNil, bytes) == [st |-> st, isNil |-> isNil, bytes |-> bytes]

OfString(res) ==
  IF res.st = "ok" THEN SRet("ok", FALSE, res.out) ELSE SRet(res.st, TRUE, <<>>)

(* step 1 left out: an empty List or Dictionary is serialized as any other *)
TextSerializeEmptyPresent(input) ==
  IF input.t = "List" THEN OfString(SerList(input.list))
  ELSE IF input.t = "Dictionary" THEN OfString(SerDictionary(input.dict))
  ELSE IF input.t = "Item" THEN OfString(SerItem(input.item.A, input.item.B))
  ELSE SRet("err", TRUE, <<>>)

TextSerialize(input) ==
  IF input.t = "Dictionary" /\ Len(input.dict) = 0 THEN SRet("ok", TRUE, <<>>)
  ELSE IF input.t = "List" /\ Len(input.list) = 0 THEN SRet("ok", TRUE, <<>>)
  ELSE IF input.t = "List" THEN OfString(SerList(input.list))
  ELSE IF input.t = "Dictionary" THEN OfString(SerDictionary(input.dict))
  ELSE IF input.t = "Item" THEN OfString(SerItem(input.item.A, input.item.B))
  ELSE SRet("err", TRUE, <<>>)

---------------------------------------------------------------------------
(* The calls.  The codec keeps no state between calls: a behaviour makes   *)
(* one call from the initial state, and then the calls that take its       *)
(* result or its input (parsing back what was serialized, parsing the      *)
(* input again with white space added).  The variables hold the last call  *)
(* and its result.                                                         *)

MaxInputLen == 4

MaxMembers == 2

(* the characters of the exhaustively enumerated inputs *)
InputChars ==
  {"a", "b", "1", "=", ";", ",", " ", "(", ")", "?", "-", ".", "*", "\""}

(* the inputs of n characters *)
Inputs(n) == [1..n -> InputChars]

(* every order a range over the keys of a map can take *)
Orders(keys) ==
  {f \in [1..Cardinality(keys) -> keys] :
     \A i, j \in 1..Cardinality(keys) : i # j => f[i] # f[j]}

RangeOrders(type, result) ==
  IF type = "dictionary" /\ result.st = "ok"
    THEN Orders(DOMAIN result.val)
    ELSE {<<>>}

NoParse == Ret("none", NilV, <<>>, FALSE)

NoSerialize == SRet("none", TRUE, <<>>)

(* TextParse calls that run at the same time *)
CallIds == {1, 2}

(* the locals of a call of TextParse: where it is, its arguments, its      *)
(* inputString, the output and err of step 3 to 5 and what it returned;    *)
(* overlap records that the other call was in progress when it started     *)
CallState(pc, in, type, inputString, output, result, overlap) ==
  [pc |-> pc, inputBytes |-> in, fieldType |-> type,
   inputString |-> inputString, output |-> output, result |-> result,
   overlap |-> overlap]

IdleCall == CallState("idle", <<>>, "none", <<>>, NoParse, NoParse, FALSE)

FetchIds == {1, 2, 3}

(* a call of Fetch: where its goroutine is, the URL, whether http.Get      *)
(* returned an error, the channel c ("none" before make, "open",           *)
(* "closed"), the values the caller received from c and whether a receive  *)
(* of the caller found c closed                                            *)
IdleFetch ==
  [pc |-> "idle", input |-> "none", getErr |-> FALSE, chan |-> "none",
   received |-> <<>>, sawClosed |-> FALSE]

Init ==
  /\ calls = [c \in CallIds |-> IdleCall]
  /\ fetches = [f \in FetchIds |-> IdleFetch]
  /\ op = "none"
  /\ inputBytes = <<>>
  /\ fieldType = "none"
  /\ parsed = NoParse
  /\ iterOrder = <<>>
  /\ built = <<>>
  /\ inputValue = OtherV
  /\ serialized = NoSerialize

(* a call of TextParse and, of a dictionary returned, the order a range   *)
(* over the map takes                                                      *)
Returned(name, input, type, from, result) ==
  /\ op' = name
  /\ inputBytes' = input
  /\ fieldType' = type
  /\ parsed' = result
  /\ \E order \in RangeOrders(type, result) : iterOrder' = order
  /\ built' = from
  /\ UNCHANGED <<calls, fetches, inputValue, serialized>>

DoTextParse(name, input, type, from) ==
  Returned(name, input, type, from, TextParse(input, type))

CallTextParse ==
  /\ op = "none"
  /\ \E n \in 0..MaxInputLen :
       \E input \in Inputs(n), type \in FieldTypes :
         DoTextParse("TextParse", input, type, <<>>)

(* Lists written from well-formed members: the text of each member and   *)
(* the member it denotes (RFC 8941 section 3.1; a token is a Go string).   *)

Member(text, bareItem, parameters) ==
  [text |-> text, value |-> T2(bareItem, parameters)]

WellFormedMembers ==
  { Member(<<"a">>, StrV(<<"a">>), <<>>),
    Member(<<"1">>, IntV(FALSE, <<1>>), <<>>),
    Member(<<"a", ";", "b">>, StrV(<<"a">>), <<T2(<<"b">>, BoolV(TRUE))>>),
    Member(<<"1", ";", "a", "=", "2">>, IntV(FALSE, <<1>>),
           <<T2(<<"a">>, IntV(FALSE, <<2>>))>>),
    Member(<<"t","e","x","t","/","h","t","m","l",";","q","=","1",".","0">>,
           StrV(<<"t","e","x","t","/","h","t","m","l">>),
           <<T2(<<"q">>, DecV(FALSE, <<1>>, 0))>>),
    Member(<<"?", "0", ";", "a", ";", "b", "=", "?", "0">>, BoolV(FALSE),
           <<T2(<<"a">>, BoolV(TRUE)), T2(<<"b">>, BoolV(FALSE))>>) }

Separators == {<<",">>, <<",", " ">>}

RECURSIVE Join(_, _)
Join(texts, sep) ==
  IF texts = <<>> THEN <<>>
  ELSE IF Len(texts) = 1 THEN Head(texts)
  ELSE Head(texts) \o sep \o Join(Tail(texts), sep)

Texts(members) == [i \in 1..Len(members) |-> members[i].text]

RECURSIVE SeqsUpTo(_, _)
SeqsUpTo(set, n) ==
  IF n = 0 THEN {<<>>}
  ELSE LET shorter == SeqsUpTo(set, n - 1)
       IN shorter \cup {Append(q, x) : q \in shorter, x \in set}

CallTextParseMembers ==
  /\ op = "none"
  /\ \E members \in SeqsUpTo(WellFormedMembers, MaxMembers) \ {<<>>},
        sep \in Separators :
       DoTextParse("TextParseMembers", Join(Texts(members), sep), "list",
                   members)

(* Dictionaries written from well-formed entries: the text of each entry,  *)
(* its key and the member it denotes.                                      *)

MaxEntries == 3

Entry(text, key, bareItem, parameters) ==
  [text |-> text, key |-> key, value |-> T2(bareItem, parameters)]

WellFormedEntries ==
  { Entry(<<"a", "=", "1">>, <<"a">>, IntV(FALSE, <<1>>), <<>>),
    Entry(<<"a", "=", "3">>, <<"a">>, IntV(FALSE, <<3>>), <<>>),
    Entry(<<"b", ";", "f", "o", "o", "=", "9">>, <<"b">>, BoolV(TRUE),
          <<T2(<<"f", "o", "o">>, IntV(FALSE, <<9>>))>>),
    Entry(<<"c", "=", "3">>, <<"c">>, IntV(FALSE, <<3>>), <<>>) }

CallTextParseEntries ==
  /\ op = "none"
  /\ \E entries \in SeqsUpTo(WellFormedEntries, MaxEntries) \ {<<>>} :
       DoTextParse("TextParseEntries", Join(Texts(entries), <<",", " ">>),
                   "dictionary", entries)

(* White space added to a list or dictionary input that was parsed: a      *)
(* space before or after the whole input, a space or a tab before or after *)
(* a comma, a space after a semicolon.  Inputs that hold a quoted string   *)
(* are left alone, a comma in a string separates nothing.                  *)

InsertAt(str, i, c) == SubSeq(str, 1, i - 1) \o <<c>> \o SubSeq(str, i, Len(str))

Spaced(str) ==
  {<<" ">> \o str, str \o <<" ">>}
    \cup {InsertAt(str, i, c) : i \in {j \in 1..Len(str) : str[j] = ","}, c \in OWS}
    \cup {InsertAt(str, i + 1, c) :
            i \in {j \in 1..Len(str) : str[j] = ","}, c \in OWS}
    \cup {InsertAt(str, i + 1, " ") : i \in {j \in 1..Len(str) : str[j] = ";"}}

ParseOps == {"TextParse", "AddWhitespace"}

AddWhitespace ==
  /\ op \in ParseOps
  /\ fieldType \in {"list", "dictionary"}
  /\ ~Contains(inputBytes, "\"")
  /\ Len(inputBytes) <= MaxInputLen
  /\ \E spaced \in Spaced(inputBytes) :
       DoTextParse("AddWhitespace", spaced, fieldType, <<>>)

NextParse ==
  \/ CallTextParse
  \/ CallTextParseMembers
  \/ CallTextParseEntries
  \/ AddWhitespace

SpecParse == Init /\ [][NextParse]_vars

---------------------------------------------------------------------------
(* Calls of TextSerialize on values of the data model, and the parse of    *)
(* what was serialized.                                                    *)

MaxParams == 1

BareItems ==
  { IntV(FALSE, <<1>>), IntV(TRUE, <<4, 2>>),
    DecV(FALSE, <<1>>, 0), DecV(FALSE, <<0>>, 5000),
    StrV(<<"a">>), StrV(<<>>),
    BytesV(<<104, 105>>),
    BoolV(TRUE), BoolV(FALSE) }

ParamKeys == {<<"a">>, <<"b">>}

ParamValues == {BoolV(TRUE), IntV(FALSE, <<1>>), StrV(<<"a">>)}

DistinctKeys(pairs) ==
  \A i, j \in 1..Len(pairs) : i # j => pairs[i].A # pairs[j].A

ParameterLists ==
  {ps \in SeqsUpTo({T2(k, v) : k \in ParamKeys, v \in ParamValues}, MaxParams) :
     DistinctKeys(ps)}

Items == {T2(b, ps) : b \in BareItems, ps \in ParameterLists}

(* the members of the lists and dictionaries serialized *)
ContainerMembers ==
  {T2(b, ps) : b \in {IntV(FALSE, <<1>>), StrV(<<"a">>), BoolV(TRUE)},
               ps \in {<<>>, <<T2(<<"a">>, BoolV(TRUE))>>,
                       <<T2(<<"a">>, IntV(FALSE, <<1>>))>>}}
    \cup {T2(InnerListV(<<T2(IntV(FALSE, <<1>>), <<>>)>>), <<>>)}

Values ==
  {ItemV(item) : item \in Items}
    \cup {ListV(members) : members \in SeqsUpTo(ContainerMembers, MaxMembers)}
    \cup {DictionaryV(members) :
            members \in {ms \in SeqsUpTo({T2(k, m) : k \in ParamKeys,
                                                     m \in ContainerMembers},
                                         MaxMembers) : DistinctKeys(ms)}}
    \cup {OtherV}

CallTextSerialize ==
  /\ op = "none"
  /\ \E input \in Values :
       /\ op' = "TextSerialize"
       /\ inputValue' = input
       /\ serialized' = TextSerialize(input)
       /\ UNCHANGED <<calls, fetches, inputBytes, fieldType, parsed, iterOrder, built>>

FieldTypeOf(input) ==
  IF input.t = "List" THEN "list"
  ELSE IF input.t = "Dictionary" THEN "dictionary"
  ELSE "item"

(* TextParse of the bytes TextSerialize returned, as the field type of the *)
(* value serialized                                                        *)
CallTextParseBack ==
  /\ op = "TextSerialize"
  /\ serialized.st = "ok"
  /\ ~serialized.isNil
  /\ DoTextParse("RoundTrip", serialized.bytes, FieldTypeOf(inputValue), <<>>)

(* Calls of TextSerialize on structures that hold, at each place a key or *)
(* a bare item can be, one that the serializers reject: a key that is      *)
(* empty or starts with an upper-case letter, an integer of 16 digits, a   *)
(* string with a tab, a nil bare item.                                     *)

NestedKeys == {<<"a">>, <<>>, <<"A">>}

NestedBareItems ==
  { IntV(FALSE, <<1>>), IntV(FALSE, [i \in 1..16 |-> 1]),
    StrV(<<"\t">>), NilV }

NestedParameters ==
  {<<>>} \cup {<<T2(k, v)>> : k \in NestedKeys, v \in NestedBareItems}

NestedItems == {T2(b, ps) : b \in NestedBareItems, ps \in NestedParameters}

NestedInnerLists ==
  {T2(InnerListV(<<item>>), <<>>) : item \in NestedItems}
    \cup {T2(InnerListV(<<T2(IntV(FALSE, <<1>>), <<>>), T2(b, <<>>)>>), ps) :
            b \in NestedBareItems, ps \in NestedParameters}

NestedValues ==
  {ItemV(item) : item \in NestedItems}
    \cup {ListV(<<T2(IntV(FALSE, <<1>>), <<>>), m>>) : m \in NestedItems}
    \cup {DictionaryV(<<T2(k, m)>>) :
            k \in NestedKeys, m \in NestedItems \cup NestedInnerLists}
    \cup {DictionaryV(<<T2(<<"a">>, T2(BoolV(TRUE), <<>>)), T2(k, m)>>) :
            k \in {<<"b">>, <<>>}, m \in NestedItems}

CallTextSerializeNested ==
  /\ op = "none"
  /\ \E input \in NestedValues :
       /\ op' = "TextSerializeNested"
       /\ inputValue' = input
       /\ serialized' = TextSerialize(input)
       /\ UNCHANGED <<calls, fetches, inputBytes, fieldType, parsed, iterOrder, built>>

(* SerList on lists of items and inner lists *)
CallSerList ==
  /\ op = "none"
  /\ \E members \in SeqsUpTo(ContainerMembers, MaxMembers) :
       /\ op' = "SerList"
       /\ inputValue' = ListV(members)
       /\ serialized' = SerList(members)
       /\ UNCHANGED <<calls, fetches, inputBytes, fieldType, parsed, iterOrder,
                      built>>

NextSerialize ==
  \/ CallTextSerialize
  \/ CallTextParseBack
  \/ CallTextSerializeNested
  \/ CallSerList

SpecSerialize == Init /\ [][NextSerialize]_vars

---------------------------------------------------------------------------
(* Calls on numbers: ParseNumber on integer literals of up to MaxDigits    *)
(* digits and more, SerInteger on the int64 values they denote, SerDecimal *)
(* on decimals around the bounds of the range and of the rounding.         *)

MaxDigits == 17

DigitRuns ==
  {head \o Repeat(d, n) :
     head \in {<<>>, <<"0">>, <<"1">>, <<"9">>}, d \in {"0", "9"},
     n \in 0..MaxDigits} \ {<<>>}

CallParseNumber ==
  /\ op = "none"
  /\ \E neg \in BOOLEAN, digits \in DigitRuns :
       /\ op' = "ParseNumber"
       /\ inputBytes' = (IF neg THEN <<"-">> ELSE <<>>) \o digits
       /\ parsed' = ParseNumber((IF neg THEN <<"-">> ELSE <<>>) \o digits)
       /\ built' = [neg |-> neg, digits |-> digits]
       /\ UNCHANGED <<calls, fetches, fieldType, iterOrder, inputValue, serialized>>

Int64Mags ==
  {m \in {MagOfString(digits) : digits \in DigitRuns} : ~MagLess(MaxInt64Mag, m)}

CallSerInteger ==
  /\ op = "none"
  /\ \E neg \in BOOLEAN, mag \in Int64Mags :
       /\ op' = "SerInteger"
       /\ inputValue' = IntV(neg, mag)
       /\ serialized' = SerInteger(IntV(neg, mag))
       /\ UNCHANGED <<calls, fetches, inputBytes, fieldType, parsed, iterOrder, built>>

DecimalMags ==
  {<<0>>, <<1>>, <<4, 2>>, [i \in 1..12 |-> 9], <<1>> \o [i \in 1..12 |-> 0]}

(* fractions in ten-thousandths: every one *)
DecimalFracs == 0..9999

CallSerDecimal ==
  /\ op = "none"
  /\ \E neg \in BOOLEAN, mag \in DecimalMags, frac \in DecimalFracs :
       /\ op' = "SerDecimal"
       /\ inputValue' = DecV(neg, mag, frac)
       /\ serialized' = SerDecimal(DecV(neg, mag, frac))
       /\ UNCHANGED <<calls, fetches, inputBytes, fieldType, parsed, iterOrder, built>>

(* ParseNumber on decimal literals: integer digits, a ".", fraction        *)
(* digits, and for some a second "." and a digit.                          *)

MaxIntegerDigits == 14

MaxFractionDigits == 5

DecimalLiteral(neg, intDigits, d, fracDigits, dots) ==
  (IF neg THEN <<"-">> ELSE <<>>) \o Repeat("1", intDigits) \o <<".">>
    \o Repeat(d, fracDigits) \o (IF dots = 2 THEN <<".", "1">> ELSE <<>>)

CallParseDecimal ==
  /\ op = "none"
  /\ \E neg \in BOOLEAN, intDigits \in 0..MaxIntegerDigits, d \in {"0", "5"},
        fracDigits \in 0..MaxFractionDigits, dots \in 1..2 :
       /\ op' = "ParseDecimal"
       /\ inputBytes' = DecimalLiteral(neg, intDigits, d, fracDigits, dots)
       /\ parsed' = ParseNumber(DecimalLiteral(neg, intDigits, d, fracDigits, dots))
       /\ built' = [intDigits |-> intDigits, fracDigits |-> fracDigits,
                    dots |-> dots]
       /\ UNCHANGED <<calls, fetches, fieldType, iterOrder, inputValue, serialized>>

NextNumber ==
  \/ CallParseNumber
  \/ CallSerInteger
  \/ CallSerDecimal
  \/ CallParseDecimal

SpecNumber == Init /\ [][NextNumber]_vars

---------------------------------------------------------------------------
(* Calls on scalars: SerString and SerBareItem on strings of printable     *)
(* characters, ParseString on what SerString wrote, ParseToken on texts    *)
(* and SerBareItem on the token it returned.                               *)

MaxStringLen == 4

StringChars == {"a", "~", " ", "\"", "\\"}

MaxTokenLen == 3

TokenTextChars == {"a", "B", "*", "/", "1", " "}

CallSerString ==
  /\ op = "none"
  /\ \E n \in 0..MaxStringLen :
       \E value \in [1..n -> StringChars] :
         /\ op' = "SerString"
         /\ inputValue' = StrV(value)
         /\ serialized' = SerString(StrV(value))
         /\ UNCHANGED <<calls, fetches, inputBytes, fieldType, parsed, iterOrder, built>>

(* ParseString on the string SerString returned *)
CallParseStringBack ==
  /\ op = "SerString"
  /\ serialized.st = "ok"
  /\ op' = "ParseStringBack"
  /\ inputBytes' = serialized.out
  /\ parsed' = ParseString(serialized.out)
  /\ UNCHANGED <<calls, fetches, fieldType, iterOrder, built, inputValue, serialized>>

(* SerBareItem on a string the caller holds *)
CallSerBareItemOfString ==
  /\ op = "none"
  /\ \E n \in 0..MaxStringLen :
       \E value \in [1..n -> StringChars] :
         /\ op' = "SerBareItemOfString"
         /\ inputValue' = StrV(value)
         /\ serialized' = SerBareItem(StrV(value))
         /\ UNCHANGED <<calls, fetches, inputBytes, fieldType, parsed, iterOrder, built>>

CallParseToken ==
  /\ op = "none"
  /\ \E n \in 0..MaxTokenLen :
       \E text \in [1..n -> TokenTextChars] :
         /\ op' = "ParseToken"
         /\ inputBytes' = text
         /\ parsed' = ParseToken(text)
         /\ UNCHANGED <<calls, fetches, fieldType, iterOrder, built, inputValue, serialized>>

(* SerBareItem on the Token ParseToken returned *)
CallSerBareItemOfToken ==
  /\ op = "ParseToken"
  /\ parsed.st = "ok"
  /\ op' = "SerBareItemOfToken"
  /\ inputValue' = parsed.val
  /\ serialized' = SerBareItem(parsed.val)
  /\ UNCHANGED <<calls, fetches, inputBytes, fieldType, parsed, iterOrder, built>>

(* Header names.  A name is a sequence of bytes; the grave accent, which   *)
(* no string of the module can hold, is the byte written "GRAVE".          *)

GraveAccent == "GRAVE"

MaxNameLen == 3

NameBytes ==
  {"a", "Z", "0", "-", "!", "~", GraveAccent, " ", ":", "\r", "\n", "@"}

(* the class of fieldName *)
fieldNameChars ==
  {"!","#","$","%","&","'","*","+","-",".","^","_",GraveAccent,"|","~"}
    \cup DIGIT \cup ALPHA

(* the class repeated with * for +: the empty name matches *)
fieldNameStar(name) == \A i \in 1..Len(name) : name[i] \in fieldNameChars

(* fieldName.Match(name): the class, once or more, from ^ to $ *)
fieldName(name) ==
  /\ Len(name) >= 1
  /\ \A i \in 1..Len(name) : name[i] \in fieldNameChars

newConceptHeaderName(name) ==
  IF fieldName(name) THEN SRet("ok", FALSE, name) ELSE SRet("err", TRUE, <<>>)

CallNewConceptHeaderName ==
  /\ op = "none"
  /\ \E n \in 0..MaxNameLen :
       \E name \in [1..n -> NameBytes] :
         /\ op' = "newConceptHeaderName"
         /\ inputBytes' = name
         /\ serialized' = newConceptHeaderName(name)
         /\ UNCHANGED <<calls, fetches, fieldType, parsed, iterOrder, built,
                        inputValue>>

(* Calls of ParseBareItem and of ParseKey on short texts *)

MaxTextLen == 3

BareItemTextChars == {"-", "1", "\"", "a", "A", "*", ":", "?", "=", " "}

KeyTextChars == {"a", "1", "_", "-", ".", "*", "A", "="}

CallParseBareItem ==
  /\ op = "none"
  /\ \E n \in 0..MaxTextLen :
       \E text \in [1..n -> BareItemTextChars] :
         /\ op' = "ParseBareItem"
         /\ inputBytes' = text
         /\ parsed' = ParseBareItem(text)
         /\ UNCHANGED <<calls, fetches, fieldType, iterOrder, built,
                        inputValue, serialized>>

CallParseKey ==
  /\ op = "none"
  /\ \E n \in 0..MaxTextLen :
       \E text \in [1..n -> KeyTextChars] :
         /\ op' = "ParseKey"
         /\ inputBytes' = text
         /\ parsed' = ParseKey(text)
         /\ UNCHANGED <<calls, fetches, fieldType, iterOrder, built,
                        inputValue, serialized>>

(* Calls of ParseParam on parameters written one after another, each ";", *)
(* a key and a value or none, and then the end of the input or a character *)
(* that is of no parameter; SerParams on the Parameters returned.          *)

MaxParamPieces == 3

ParamPiece(key, text, value) == [key |-> key, text |-> text, value |-> value]

ParamPieces ==
  {ParamPiece(key, <<>>, BoolV(TRUE)) : key \in ParamKeys}
    \cup {ParamPiece(key, <<"=", "1">>, IntV(FALSE, <<1>>)) : key \in ParamKeys}
    \cup {ParamPiece(key, <<"=", "?", "0">>, BoolV(FALSE)) : key \in ParamKeys}

RECURSIVE ParamText(_)
ParamText(pieces) ==
  IF pieces = <<>> THEN <<>>
  ELSE <<";">> \o Head(pieces).key \o Head(pieces).text \o ParamText(Tail(pieces))

ParamEnds == {<<>>, <<" ">>, <<",">>}

CallParseParam ==
  /\ op = "none"
  /\ \E pieces \in SeqsUpTo(ParamPieces, MaxParamPieces), end \in ParamEnds :
       /\ op' = "ParseParam"
       /\ inputBytes' = ParamText(pieces) \o end
       /\ parsed' = ParseParam(ParamText(pieces) \o end)
       /\ built' = [pieces |-> pieces, end |-> end]
       /\ UNCHANGED <<calls, fetches, fieldType, iterOrder, inputValue,
                      serialized>>

(* SerParams on the Parameters ParseParam returned *)
CallSerParamsBack ==
  /\ op = "ParseParam"
  /\ parsed.st = "ok"
  /\ op' = "SerParamsBack"
  /\ serialized' = SerParams(parsed.val)
  /\ UNCHANGED <<calls, fetches, inputBytes, fieldType, parsed, iterOrder,
                 built, inputValue>>

(* Calls of ParseInnerList on "(" and a short text *)

MaxInnerLen == 4

InnerListChars == {")", "1", "a", " ", ";", "=", "("}

CallParseInnerList ==
  /\ op = "none"
  /\ \E n \in 0..MaxInnerLen :
       \E text \in [1..n -> InnerListChars] :
         /\ op' = "ParseInnerList"
         /\ inputBytes' = <<"(">> \o text
         /\ parsed' = ParseInnerList(<<"(">> \o text)
         /\ UNCHANGED <<calls, fetches, fieldType, iterOrder, built,
                        inputValue, serialized>>

(* Calls of ParseBinary on ":", a short content and, or not, the ":" that *)
(* closes it                                                               *)

MaxContentLen == 4

ContentChars == {"a", "G", "k", "=", "!"}

BinaryText(content, closed) ==
  <<":">> \o content \o (IF closed THEN <<":">> ELSE <<>>)

CallParseBinary ==
  /\ op = "none"
  /\ \E n \in 0..MaxContentLen, closed \in BOOLEAN :
       \E content \in [1..n -> ContentChars] :
         /\ op' = "ParseBinary"
         /\ inputBytes' = BinaryText(content, closed)
         /\ parsed' = ParseBinary(BinaryText(content, closed))
         /\ built' = [content |-> content, closed |-> closed]
         /\ UNCHANGED <<calls, fetches, fieldType, iterOrder, inputValue,
                        serialized>>

NextScalar ==
  \/ CallSerString
  \/ CallParseStringBack
  \/ CallSerBareItemOfString
  \/ CallParseToken
  \/ CallSerBareItemOfToken
  \/ CallNewConceptHeaderName
  \/ CallParseBareItem
  \/ CallParseKey
  \/ CallParseParam
  \/ CallSerParamsBack
  \/ CallParseInnerList
  \/ CallParseBinary

SpecScalar == Init /\ [][NextScalar]_vars

---------------------------------------------------------------------------
(* Two calls of TextParse at the same time.  A step of a call is a step of *)
(* TextParse: step 1, step 2, steps 3 to 5 (the call of the parser, which  *)
(* moves inputString through the pointer it is given), the test of err,    *)
(* step 6, steps 7 and 8.  The steps of the two calls are taken in any     *)
(* order.  A call that panics ends there; what the panic does to the rest  *)
(* of the program is its caller's matter.                                  *)

ConcurrentTexts ==
  { <<>>,
    <<" ", "1">>,
    <<"1", ",", " ", "a">>,
    <<"a", "=", "1", ",", " ", "b">>,
    <<"(", "1", " ", "2", ")">>,
    <<"1", " ", "x">>,
    <<"a", ";", "b", "=", "?", "0", " ">>,
    <<"\"", "a">>,
    <<"a", ",", " ">> }

(* inputString as one variable of the package, that every call works on *)
CursorShared(c) == 1

(* the inputString a call works on: its own local variable *)
CursorOf(c) == c

InProgress(c) == calls[c].pc \notin {"idle", "done"}

StartTextParse(c) ==
  /\ op \in {"none", "Concurrent"}
  /\ calls[c].pc = "idle"
  /\ \E input \in ConcurrentTexts, type \in FieldTypes :
       calls' = [calls EXCEPT ![c] =
                   CallState("step1", input, type, <<>>, NoParse, NoParse,
                             \E d \in CallIds \ {c} : InProgress(d))]
  /\ op' = "Concurrent"
  /\ UNCHANGED <<inputBytes, fieldType, parsed, iterOrder, built, inputValue,
                 serialized, fetches>>

(* a step of call c that leaves its inputString as cursor *)
Moved(c, pc, cursor) ==
  /\ calls' = [calls EXCEPT ![CursorOf(c)].inputString = cursor, ![c].pc = pc]
  /\ UNCHANGED <<op, inputBytes, fieldType, parsed, iterOrder, built,
                 inputValue, serialized, fetches>>

(* step 1: inputString := string(inputBytes) *)
Step1(c) ==
  /\ calls[c].pc = "step1"
  /\ Moved(c, "step2", calls[c].inputBytes)

(* step 2 *)
Step2(c) ==
  /\ calls[c].pc = "step2"
  /\ Moved(c, "step3", TrimLeft(calls[CursorOf(c)].inputString, SP))

(* steps 3 to 5, output being what the parser returned *)
Parsed(c, output) ==
  /\ calls' = [calls EXCEPT ![CursorOf(c)].inputString = output.rest,
                            ![c].output = output,
                            ![c].pc = IF output.st = "panic" THEN "done"
                                      ELSE "err",
                            ![c].result = IF output.st = "panic"
                                            THEN Finish(output)
                                            ELSE NoParse]
  /\ UNCHANGED <<op, inputBytes, fieldType, parsed, iterOrder, built,
                 inputValue, serialized, fetches>>

Step3(c) ==
  /\ calls[c].pc = "step3"
  /\ Parsed(c, Dispatch(calls[CursorOf(c)].inputString, calls[c].fieldType))

(* if err != nil { return nil, err } *)
StepErr(c) ==
  /\ calls[c].pc = "err"
  /\ calls' = [calls EXCEPT
                 ![c].pc = IF calls[c].output.st = "ok" THEN "step6" ELSE "done",
                 ![c].result = IF calls[c].output.st = "ok" THEN NoParse
                               ELSE Finish(calls[c].output)]
  /\ UNCHANGED <<op, inputBytes, fieldType, parsed, iterOrder, built,
                 inputValue, serialized, fetches>>

(* step 6 *)
Step6(c) ==
  /\ calls[c].pc = "step6"
  /\ Moved(c, "step7", TrimLeft(calls[CursorOf(c)].inputString, SP))

(* steps 7 and 8 *)
Step7(c) ==
  /\ calls[c].pc = "step7"
  /\ calls' = [calls EXCEPT
                 ![c].pc = "done",
                 ![c].result = RequireEmpty(calls[CursorOf(c)].inputString,
                                            calls[c].output)]
  /\ UNCHANGED <<op, inputBytes, fieldType, parsed, iterOrder, built,
                 inputValue, serialized, fetches>>

NextConcurrent ==
  \/ \E c \in CallIds : StartTextParse(c)
  \/ \E c \in CallIds : Step1(c)
  \/ \E c \in CallIds : Step2(c)
  \/ \E c \in CallIds : Step3(c)
  \/ \E c \in CallIds : StepErr(c)
  \/ \E c \in CallIds : Step6(c)
  \/ \E c \in CallIds : Step7(c)

SpecConcurrent == Init /\ [][NextConcurrent]_vars

---------------------------------------------------------------------------
(* Calls of Fetch.  Fetch makes an unbuffered channel, starts a goroutine  *)
(* and returns the channel.  The goroutine calls http.Get, sends one       *)
(* FetchResult, which waits for the caller to receive, and closes the      *)
(* channel as it returns.                                                  *)

(* a URL the server of which answers or not, one no server answers, one    *)
(* that is no URL                                                          *)
FetchInputs == {"reachable", "unreachable", "malformed"}

(* the FetchResult sent when http.Get returned a nil error and all fields  *)
(* of which are set                                                        *)
FetchResultBoth(getErr) ==
  [Response |-> "Response", Err |-> IF getErr THEN "err" ELSE "nil"]

(* the FetchResult sent: its Response and Err, "nil" when nil *)
FetchResult(getErr) ==
  IF getErr THEN [Response |-> "nil", Err |-> "err"]
  ELSE [Response |-> "Response", Err |-> "nil"]

FetchStep(f, next) ==
  /\ fetches' = [fetches EXCEPT ![f] = next]
  /\ UNCHANGED <<op, inputBytes, fieldType, parsed, iterOrder, built,
                 inputValue, serialized, calls>>

(* c := make(chan FetchResult); go func() {...}(); return c *)
Fetch(f) ==
  /\ op \in {"none", "Fetch"}
  /\ fetches[f].pc = "idle"
  /\ \E input \in FetchInputs :
       fetches' = [fetches EXCEPT ![f].pc = "get", ![f].input = input,
                                  ![f].chan = "open"]
  /\ op' = "Fetch"
  /\ UNCHANGED <<inputBytes, fieldType, parsed, iterOrder, built, inputValue,
                 serialized, calls>>

(* res, err := http.Get(input) *)
HttpGet(f) ==
  /\ fetches[f].pc = "get"
  /\ \E getErr \in BOOLEAN :
       /\ fetches[f].input # "reachable" => getErr
       /\ FetchStep(f, [fetches[f] EXCEPT !.pc = "send", !.getErr = getErr])

(* c <- FetchResult{...} in the goroutine and <-c in the caller *)
SendReceive(f) ==
  /\ fetches[f].pc = "send"
  /\ fetches[f].chan = "open"
  /\ FetchStep(f, [fetches[f] EXCEPT
                     !.pc = "close",
                     !.received = Append(@, FetchResult(fetches[f].getErr))])

(* defer close(c) *)
Close(f) ==
  /\ fetches[f].pc = "close"
  /\ FetchStep(f, [fetches[f] EXCEPT !.pc = "done", !.chan = "closed"])

(* a receive of the caller on the closed channel: no value *)
ReceiveClosed(f) ==
  /\ fetches[f].chan = "closed"
  /\ ~fetches[f].sawClosed
  /\ FetchStep(f, [fetches[f] EXCEPT !.sawClosed = TRUE])

NextFetch ==
  \/ \E f \in FetchIds : Fetch(f)
  \/ \E f \in FetchIds : HttpGet(f)
  \/ \E f \in FetchIds : SendReceive(f)
  \/ \E f \in FetchIds : Close(f)
  \/ \E f \in FetchIds : ReceiveClosed(f)

SpecFetch == Init /\ [][NextFetch]_vars

---------------------------------------------------------------------------
(* Header lists.  A header list is a sequence of headers, each a name and  *)
(* a value.                                                                *)

header2(name, value) == [Name |-> name, Value |-> value]

HeaderNames == {<<"a">>, <<"b">>}

(* getting a name from a header list: nil when no header has the name,     *)
(* given as [isNil, value]                                                 *)
HeaderListGet(list, name) ==
  IF \E i \in 1..Len(list) : list[i].Name = name
    THEN [isNil |-> FALSE,
          value |-> list[CHOOSE i \in 1..Len(list) : list[i].Name = name].Value]
    ELSE [isNil |-> TRUE, value |-> <<>>]

(* steps 4 to 6, result being what TextParse returned: a panic goes up to  *)
(* the caller                                                              *)
StructuredResult(result) ==
  IF result.st = "panic" THEN Ret("panic", NilV, <<>>, result.subErr)
  ELSE IF result.st = "err" THEN Ret("ok", NilV, <<>>, result.subErr)
  ELSE Ret("ok", result.val, <<>>, result.subErr)

(* steps 2 to 6, value being what getting the name returned *)
StructuredOf(value, type) ==
  IF value.isNil THEN Ret("ok", NilV, <<>>, FALSE)
  ELSE StructuredResult(TextParse(value.value, type))

GetStructuredHeader(list, name, type) ==
  IF type \notin FieldTypes THEN Ret("panic", NilV, <<>>, FALSE)
  ELSE StructuredOf(HeaderListGet(list, name), type)

MaxValueLen == 3

(* GetStructuredHeader of a name on the empty list and on lists of one     *)
(* header                                                                  *)
CallGetStructuredHeader ==
  /\ op = "none"
  /\ \E n \in 0..MaxValueLen, present \in BOOLEAN :
       \E value \in Inputs(n), header \in HeaderNames, name \in HeaderNames,
          type \in FieldTypes :
         /\ op' = "GetStructuredHeader"
         /\ inputBytes' = value
         /\ fieldType' = type
         /\ built' = [list |-> IF present THEN <<header2(header, value)>> ELSE <<>>,
                      name |-> name]
         /\ parsed' = GetStructuredHeader(
                        IF present THEN <<header2(header, value)>> ELSE <<>>,
                        name, type)
         /\ UNCHANGED <<calls, fetches, iterOrder, inputValue, serialized>>

NextHeaders ==
  \/ CallGetStructuredHeader

SpecHeaders == Init /\ [][NextHeaders]_vars

---------------------------------------------------------------------------
(* The loops of the parsers, one turn at a time.  A turn starts at the     *)
(* test of the loop with an input that is not empty and ends when the loop *)
(* goes to its test again ("continue", with what it leaves of the input),  *)
(* when the function returns, with a value or an error ("return"), or when *)
(* it panics.  acc is what the loop of ParseNumber keeps from one turn to  *)
(* the next: type and input_number.                                        *)

TurnRet(next, rest, acc) == [next |-> next, rest |-> rest, acc |-> acc]

NoAcc == [type |-> "integer", inputNumber |-> <<>>]

(* ParseList and ParseDictionary after a member: the comma and the         *)
(* whitespace around it, in being the input without its leading whitespace *)
AfterComma(in) ==
  IF in = <<>> THEN TurnRet("return", in, NoAcc)
  ELSE TurnRet("continue", in, NoAcc)

AfterMember(in) ==
  IF in = <<>> THEN TurnRet("return", in, NoAcc)
  ELSE IF Head(in) # "," THEN TurnRet("return", Tail(in), NoAcc)
  ELSE AfterComma(TrimLeft(Tail(in), OWS))

(* a member, being what ParseItemOrList or ParseParam returned *)
MemberTurn(member) ==
  IF member.st = "panic" THEN TurnRet("panic", member.rest, NoAcc)
  ELSE IF member.st = "err" THEN TurnRet("return", member.rest, NoAcc)
  ELSE AfterMember(TrimLeft(member.rest, OWS))

ListTurn(in) == MemberTurn(ParseItemOrList(in))

(* key being what ParseKey returned *)
DictionaryKeyTurn(key) ==
  IF key.st = "err" THEN TurnRet("return", key.rest, NoAcc)
  ELSE IF key.rest = <<>> THEN TurnRet("panic", key.rest, NoAcc)
  ELSE IF Head(key.rest) = "=" THEN MemberTurn(ParseItemOrList(Tail(key.rest)))
  ELSE MemberTurn(ParseParam(key.rest))

DictionaryTurn(in) == DictionaryKeyTurn(ParseKey(in))

(* steps 3.3 to 3.5 with the test of step 3.5 left out *)
InnerListItemTurnUntested(item) ==
  IF item.st = "panic" THEN TurnRet("panic", item.rest, NoAcc)
  ELSE TurnRet("continue", item.rest, NoAcc)

(* steps 3.3 to 3.5, item being what ParseItem returned *)
InnerListItemTurn(item) ==
  IF item.st = "panic" THEN TurnRet("panic", item.rest, NoAcc)
  ELSE IF item.rest = <<>> THEN TurnRet("panic", item.rest, NoAcc)
  ELSE IF Head(item.rest) # " " /\ Head(item.rest) # ")"
    THEN TurnRet("return", item.rest, NoAcc)
  ELSE TurnRet("continue", item.rest, NoAcc)

(* steps 3.1 and 3.2, in being the input without its leading spaces *)
InnerListTrimmedTurn(in) ==
  IF in = <<>> THEN TurnRet("panic", in, NoAcc)
  ELSE IF Head(in) = ")" THEN TurnRet("return", ParseParam(Tail(in)).rest, NoAcc)
  ELSE InnerListItemTurn(ParseItem(in))

InnerListTurn(in) == InnerListTrimmedTurn(TrimLeft(in, SP))

(* value being what ParseBareItem returned: its error is not tested *)
ParamValueTurn(value) ==
  IF value.st = "panic" THEN TurnRet("panic", value.rest, NoAcc)
  ELSE TurnRet("continue", value.rest, NoAcc)

ParamKeyTurn(key) ==
  IF key.st = "err" THEN TurnRet("return", key.rest, NoAcc)
  ELSE IF key.rest = <<>> THEN TurnRet("panic", key.rest, NoAcc)
  ELSE IF Head(key.rest) = "=" THEN ParamValueTurn(ParseBareItem(Tail(key.rest)))
  ELSE TurnRet("continue", key.rest, NoAcc)

ParamTurn(in) ==
  IF Head(in) # ";" THEN TurnRet("return", in, NoAcc)
  ELSE ParamKeyTurn(ParseKey(TrimLeft(Tail(in), SP)))

KeyTurn(in) ==
  IF Head(in) \notin KeyRestChars THEN TurnRet("return", in, NoAcc)
  ELSE TurnRet("continue", Tail(in), NoAcc)

TokenTurn(in) ==
  IF Head(in) \notin TokenRestChars THEN TurnRet("return", in, NoAcc)
  ELSE TurnRet("continue", Tail(in), NoAcc)

StringTurn(in) ==
  IF Head(in) = "\\" THEN
    IF Tail(in) = <<>> THEN TurnRet("return", Tail(in), NoAcc)
    ELSE IF in[2] # "\"" /\ in[2] # "\\"
      THEN TurnRet("return", Tail(Tail(in)), NoAcc)
    ELSE TurnRet("continue", Tail(Tail(in)), NoAcc)
  ELSE IF Head(in) = "\"" THEN TurnRet("return", Tail(in), NoAcc)
  ELSE IF IsControl(Head(in)) THEN TurnRet("return", Tail(in), NoAcc)
  ELSE TurnRet("continue", Tail(in), NoAcc)

(* steps 7.5 and 7.6 *)
NumberAppended(rest, type, inputNumber) ==
  IF TooLong(type, inputNumber) THEN TurnRet("return", rest, NoAcc)
  ELSE TurnRet("continue", rest, [type |-> type, inputNumber |-> inputNumber])

NumberTurn(in, acc) ==
  IF Head(in) \in DIGIT
    THEN NumberAppended(Tail(in), acc.type, Append(acc.inputNumber, Head(in)))
  ELSE IF Head(in) = "." THEN
    IF Len(acc.inputNumber) > DecimalMaxIntegerChars
      THEN TurnRet("return", Tail(in), NoAcc)
    ELSE NumberAppended(Tail(in), "decimal", Append(acc.inputNumber, Head(in)))
  ELSE TurnRet("return", PutBack(Head(in), Tail(in)), NoAcc)

Loops ==
  {"list", "dictionary", "innerList", "param", "key", "token", "string",
   "number"}

Turn(loop, in, acc) ==
  IF loop = "list" THEN ListTurn(in)
  ELSE IF loop = "dictionary" THEN DictionaryTurn(in)
  ELSE IF loop = "innerList" THEN InnerListTurn(in)
  ELSE IF loop = "param" THEN ParamTurn(in)
  ELSE IF loop = "key" THEN KeyTurn(in)
  ELSE IF loop = "token" THEN TokenTurn(in)
  ELSE IF loop = "string" THEN StringTurn(in)
  ELSE NumberTurn(in, acc)

(* what the function tests of the input before it enters its loop *)
CanEnter(loop, in) ==
  IF loop \in {"list", "dictionary"} THEN Head(in) # " "
  ELSE IF loop = "key" THEN Head(in) \in KeyStartChars
  ELSE IF loop = "token" THEN Head(in) \in TokenStartChars
  ELSE IF loop = "number" THEN Head(in) \in DIGIT
  ELSE TRUE

MaxTurnLen == 3

Turned(loop, first, turns, in, acc) ==
  /\ op' = "Turn"
  /\ inputBytes' = in
  /\ built' = [loop |-> loop, first |-> first, turns |-> turns]
  /\ parsed' = Turn(loop, in, acc)
  /\ UNCHANGED <<calls, fetches, fieldType, iterOrder, inputValue, serialized>>

(* the first turn of a loop *)
EnterLoop ==
  /\ op = "none"
  /\ \E n \in 1..MaxTurnLen :
       \E in \in Inputs(n), loop \in Loops :
         /\ CanEnter(loop, in)
         /\ Turned(loop, in, 1, in, NoAcc)

(* the loop at its test again: the next turn, when the input is not empty *)
NextTurn ==
  /\ op = "Turn"
  /\ parsed.next = "continue"
  /\ parsed.rest # <<>>
  /\ Turned(built.loop, built.first, built.turns + 1, parsed.rest, parsed.acc)

NextLoops ==
  \/ EnterLoop
  \/ NextTurn

SpecLoops == Init /\ [][NextLoops]_vars

---------------------------------------------------------------------------
(* Headers: a map of names to values behind a pointer.  h is the struct,   *)
(* its headerList a function on the names that have an entry.              *)

HeaderValues == {<<"1">>, <<"2">>}

HeadersSet(h, name, value) ==
  [h EXCEPT !.headerList =
     [n \in DOMAIN h.headerList \cup {name} |->
        IF n = name THEN value ELSE h.headerList[n]]]

HeadersAppend(h, name, value) == HeadersSet(h, name, value)

HeadersDelete(h, name) ==
  [h EXCEPT !.headerList =
     [n \in DOMAIN h.headerList \ {name} |-> h.headerList[n]]]

(* the *string, given as [isNil, value] *)
HeadersGet(h, name) ==
  IF name \in DOMAIN h.headerList
    THEN [isNil |-> FALSE, value |-> h.headerList[name]]
    ELSE [isNil |-> TRUE, value |-> <<>>]

(* Iterable that returns the headerList itself: a map is a reference *)
HeadersIterableShared(h) == [shared |-> TRUE, map |-> <<>>]

(* the map Iterable returns is a new one, filled from the headerList *)
HeadersIterable(h) == [shared |-> FALSE, map |-> h.headerList]

(* what a map that Iterable returned holds when it is read *)
MapNow(iterable, h) ==
  IF iterable.shared THEN h.headerList ELSE iterable.map

(* a tuple of init: the name and the value are empty when the tuple is     *)
(* too short                                                               *)
TupleName(tuple) == IF Len(tuple) >= 1 THEN tuple[1] ELSE <<>>

TupleValue(tuple) == IF Len(tuple) >= 2 THEN tuple[2] ELSE <<>>

RECURSIVE SetTuples(_, _)
SetTuples(h, init) ==
  IF init = <<>> THEN h
  ELSE SetTuples(HeadersSet(h, TupleName(Head(init)), TupleValue(Head(init))),
                 Tail(init))

(* init is a [][]string, empty for nil *)
NewHeaders(init) ==
  SetTuples([headerList |-> [n \in {} |-> <<>>], guardImmutable |-> FALSE],
            init)

HeaderTuples ==
  {<<<<"a">>, <<"1">>>>, <<<<"b">>, <<"2">>>>, <<<<"b">>>>}

MaxTuples == 1

MaxHeaderCalls == 3

NoIterable == [taken |-> FALSE, iterable |-> HeadersIterable(NewHeaders(<<>>))]

(* the calls of Set that NewHeaders makes for init *)
TuplesAsSets(init) ==
  [i \in 1..Len(init) |->
     [method |-> "Set", name |-> TupleName(init[i]),
      value |-> TupleValue(init[i])]]

(* the state after a call: h the Headers, before the Headers before the    *)
(* call, last the call, got what Get returned, iterable the map Iterable   *)
(* returned, snapshot what it held then and log the calls so far           *)
HeadersCalled(h, before, last, got, iterable, snapshot, n) ==
  /\ op' = "Headers"
  /\ built' = [h |-> h, before |-> before, last |-> last, got |-> got,
               iterable |-> iterable, snapshot |-> snapshot, n |-> n,
               log |-> IF last.method = "NewHeaders" THEN last.init
                       ELSE Append(built.log, last)]
  /\ UNCHANGED <<calls, fetches, fieldType, inputBytes, parsed, iterOrder,
                 inputValue, serialized>>

NoGet == [isNil |-> TRUE, value |-> <<>>]

CallNewHeaders ==
  /\ op = "none"
  /\ \E init \in SeqsUpTo(HeaderTuples, MaxTuples) :
       HeadersCalled(NewHeaders(init), NewHeaders(init),
                     [method |-> "NewHeaders", init |-> TuplesAsSets(init)],
                     NoGet, NoIterable, <<>>, 0)

MoreCalls ==
  /\ op = "Headers"
  /\ built.n < MaxHeaderCalls

CallSet ==
  /\ MoreCalls
  /\ \E name \in HeaderNames, value \in HeaderValues :
       HeadersCalled(HeadersSet(built.h, name, value), built.h,
                     [method |-> "Set", name |-> name, value |-> value],
                     NoGet, built.iterable, built.snapshot, built.n + 1)

CallAppend ==
  /\ MoreCalls
  /\ \E name \in HeaderNames, value \in HeaderValues :
       HeadersCalled(HeadersAppend(built.h, name, value), built.h,
                     [method |-> "Append", name |-> name, value |-> value],
                     NoGet, built.iterable, built.snapshot, built.n + 1)

CallDelete ==
  /\ MoreCalls
  /\ \E name \in HeaderNames :
       HeadersCalled(HeadersDelete(built.h, name), built.h,
                     [method |-> "Delete", name |-> name, value |-> <<>>],
                     NoGet, built.iterable, built.snapshot, built.n + 1)

CallGet ==
  /\ MoreCalls
  /\ \E name \in HeaderNames :
       HeadersCalled(built.h, built.h,
                     [method |-> "Get", name |-> name, value |-> <<>>],
                     HeadersGet(built.h, name),
                     built.iterable, built.snapshot, built.n + 1)

CallIterable ==
  /\ MoreCalls
  /\ HeadersCalled(built.h, built.h,
                   [method |-> "Iterable", name |-> <<>>, value |-> <<>>],
                   NoGet,
                   [taken |-> TRUE, iterable |-> HeadersIterable(built.h)],
                   built.h.headerList, built.n + 1)

NextHeaderMap ==
  \/ CallNewHeaders
  \/ CallSet
  \/ CallAppend
  \/ CallDelete
  \/ CallGet
  \/ CallIterable

SpecHeaderMap == Init /\ [][NextHeaderMap]_vars

(* The input that remains: the turns of the loops, the steps of TextParse  *)
(* and the parsers that take a run of characters in one go.                *)
NextRemaining ==
  \/ NextLoops
  \/ NextConcurrent
  \/ CallParseBinary
  \/ CallParseToken

SpecRemaining == Init /\ [][NextRemaining]_vars

Next ==
  \/ NextParse
  \/ NextSerialize
  \/ NextNumber
  \/ NextScalar
  \/ NextConcurrent
  \/ NextFetch
  \/ NextHeaders
  \/ NextLoops
  \/ NextHeaderMap

Spec == Init /\ [][Next]_vars

---------------------------------------------------------------------------
(* Properties of parsing *)

TextParseOps ==
  {"TextParse", "TextParseMembers", "TextParseEntries", "AddWhitespace"}

(* C2: parsing is all-or-nothing.  Whenever a sub-parser run by a call of  *)
(* TextParse failed, the call returns an error and a nil value; a failed   *)
(* sub-parse contributes nothing to a value returned.  (A call that ends   *)
(* in a run-time panic returns nothing: that is C3.)                       *)
C2_AllOrNothing ==
  (op \in TextParseOps /\ parsed.subErr /\ parsed.st # "panic")
    => (parsed.st = "err" /\ parsed.val = NilV)

(* C3: for every input and field type the outcome of TextParse is a value  *)
(* or an error: no call reads the first character of an exhausted input.   *)
C3_ValueOrError ==
  op \in TextParseOps => parsed.st \in {"ok", "err"}

(* C4: TextParse returns a value only if the whole input was consumed.     *)
(* When the parser of the field type returned and left more than spaces,   *)
(* TextParse returns an error and a nil value; when TextParse returns a    *)
(* value, the parser left nothing but spaces.                              *)
C4_WholeInputConsumed ==
  op \in TextParseOps =>
    /\ (/\ TextParseDispatch(inputBytes, fieldType).st = "ok"
        /\ TrimLeft(TextParseDispatch(inputBytes, fieldType).rest, SP) # <<>>)
         => (parsed.st = "err" /\ parsed.val = NilV)
    /\ parsed.st = "ok" =>
         /\ TextParseDispatch(inputBytes, fieldType).st = "ok"
         /\ TrimLeft(TextParseDispatch(inputBytes, fieldType).rest, SP) = <<>>
         /\ parsed.val = TextParseDispatch(inputBytes, fieldType).val

(* an item was parsed, input other than spaces was left after it, and the  *)
(* call failed                                                             *)
C4_TrailingRejected ==
  /\ op = "TextParse"
  /\ fieldType = "item"
  /\ TextParseDispatch(inputBytes, fieldType).st = "ok"
  /\ TextParseDispatch(inputBytes, fieldType).val.A = IntV(FALSE, <<1>>)
  /\ TextParseDispatch(inputBytes, fieldType).rest = <<" ", "a">>
  /\ parsed.st = "err"

RECURSIVE FirstOccurrences(_, _)
FirstOccurrences(entries, seen) ==
  IF entries = <<>> THEN <<>>
  ELSE IF Head(entries).key \in seen THEN FirstOccurrences(Tail(entries), seen)
  ELSE <<Head(entries).key>>
         \o FirstOccurrences(Tail(entries), seen \cup {Head(entries).key})

LastOccurrence(entries, key) ==
  entries[CHOOSE i \in 1..Len(entries) :
            /\ entries[i].key = key
            /\ \A j \in (i + 1)..Len(entries) : entries[j].key # key]

(* C5: parsing a dictionary returns an ordered mapping with one entry per  *)
(* distinct key of the input, in the order of each key's first occurrence, *)
(* each entry holding the member of the key's last occurrence.             *)
C5_DictionaryOrder ==
  op = "TextParseEntries" =>
    /\ parsed.st = "ok"
    /\ DOMAIN parsed.val = {built[i].key : i \in 1..Len(built)}
    /\ \A key \in DOMAIN parsed.val :
         parsed.val[key] = LastOccurrence(built, key).value
    /\ iterOrder = FirstOccurrences(built, {})

(* C7: a list of n well-formed members separated by commas parses to       *)
(* exactly the n members, in input order, each with its own bare item and  *)
(* its own parameters in the order written.                                *)
C7_ListMembers ==
  op = "TextParseMembers" =>
    /\ parsed.st = "ok"
    /\ parsed.val = [i \in 1..Len(built) |-> built[i].value]

(* the outcome of a call: the value parsed, or failure *)
Outcome(result) ==
  IF result.st = "ok" THEN [ok |-> TRUE, val |-> result.val]
  ELSE [ok |-> FALSE, val |-> NilV]

(* C8: white space insensitivity.  Adding a space before or after a list   *)
(* or dictionary input, a space or a tab before or after a comma of it, or *)
(* a space after a semicolon of it leaves the outcome of TextParse         *)
(* unchanged.                                                              *)
C8_WhitespaceInsensitive ==
  [][op' = "AddWhitespace" => Outcome(parsed') = Outcome(parsed)]_vars

---------------------------------------------------------------------------
(* Properties of serializing *)

(* The value parsed is the value serialized.  A dictionary parsed is a map *)
(* and is compared by its keys and the member of each key, its order left  *)
(* aside.                                                                  *)
SameValue(result, input) ==
  IF input.t = "Item" THEN result = input.item
  ELSE IF input.t = "List" THEN result = input.list
  ELSE /\ DOMAIN result = {input.dict[i].A : i \in 1..Len(input.dict)}
       /\ \A i \in 1..Len(input.dict) : result[input.dict[i].A] = input.dict[i].B

(* C1: round trip.  For every item, list and dictionary that TextSerialize *)
(* turns into bytes without an error, TextParse of the bytes as the type   *)
(* of the value succeeds and returns a value equal to it.                  *)
C1_RoundTrip ==
  op = "RoundTrip" =>
    /\ parsed.st = "ok"
    /\ SameValue(parsed.val, inputValue)

(* C6: TextSerialize of a List with no members, and of a Dictionary with   *)
(* no members, returns nil bytes and a nil error: not an error, and not a  *)
(* present empty byte string.                                              *)
C6_EmptyIsAbsent ==
  (op = "TextSerialize" /\ inputValue \in {ListV(<<>>), DictionaryV(<<>>)})
    => (serialized.st = "ok" /\ serialized.isNil)

(* an empty Dictionary was serialized and the outcome is absent *)
C6_EmptyDictionarySerialized ==
  /\ op = "TextSerialize"
  /\ inputValue = DictionaryV(<<>>)
  /\ serialized = SRet("ok", TRUE, <<>>)

---------------------------------------------------------------------------
(* Properties of numbers *)

(* C9: integer range boundary.  An integer literal parses iff it has at    *)
(* most 15 digits, to the integer it denotes; SerInteger succeeds iff the  *)
(* integer is in -999999999999999..999999999999999, which is to have a     *)
(* magnitude of at most 15 digits, and writes "-" for a negative integer   *)
(* and then the base-10 digits of the magnitude.                           *)
C9_IntegerRange ==
  /\ op = "ParseNumber" =>
       /\ parsed.st = "ok" <=> Len(built.digits) <= 15
       /\ parsed.st = "ok" =>
            /\ parsed.val = IntV(built.neg, MagOfString(built.digits))
            /\ parsed.rest = <<>>
       /\ parsed.st # "ok" => (parsed.st = "err" /\ parsed.val = NilV)
  /\ op = "SerInteger" =>
       /\ serialized.st = "ok" <=> Len(inputValue.n) <= 15
       /\ serialized.st = "ok" =>
            serialized.out = (IF inputValue.neg THEN <<"-">> ELSE <<>>)
                               \o StringOfMag(inputValue.n)
       /\ serialized.st # "ok" => serialized.st = "err"

(* the literal -999999999999999, of 15 digits, was parsed to its integer *)
C9_AtTheBoundary ==
  /\ op = "ParseNumber"
  /\ inputBytes = <<"-">> \o Repeat("9", 15)
  /\ parsed.st = "ok"
  /\ parsed.val = IntV(TRUE, [i \in 1..15 |-> 9])

(* the fraction digits of th thousandths, 0 < th < 1000, without trailing  *)
(* zeros                                                                   *)
FractionDigits(th) ==
  TrimRight(<<DigitChar(th \div 100), DigitChar((th \div 10) % 10),
              DigitChar(th % 10)>>, {"0"})

(* [-]I.F of a decimal, rounded to thousandths *)
DecimalForm(neg, rounded) ==
  (IF neg /\ ~(IsZeroMag(rounded.mag) /\ rounded.th = 0) THEN <<"-">> ELSE <<>>)
    \o StringOfMag(rounded.mag)
    \o <<".">>
    \o (IF rounded.th = 0 THEN <<"0">> ELSE FractionDigits(rounded.th))

(* C10: what SerDecimal writes has the form [-]I.F with exactly one        *)
(* decimal point, I the base-10 integer part ("0" if zero), F the 1 to 3   *)
(* significant fraction digits of the value rounded to thousandths ("0" if *)
(* the fraction is zero).                                                  *)
C10_DecimalForm ==
  (op = "SerDecimal" /\ serialized.st = "ok") =>
    serialized.out =
      DecimalForm(inputValue.neg,
                  RoundToThousandths(inputValue.n, inputValue.frac))

(* the thousandth nearest to frac ten-thousandths, and of two equally near *)
(* the even one                                                            *)
NearestThousandth(frac) ==
  IF frac - 10 * (frac \div 10) < 10 * (frac \div 10 + 1) - frac
    THEN frac \div 10
  ELSE IF frac - 10 * (frac \div 10) > 10 * (frac \div 10 + 1) - frac
    THEN frac \div 10 + 1
  ELSE IF (frac \div 10) % 2 = 0 THEN frac \div 10
  ELSE frac \div 10 + 1

(* |value| rounded half to even: the integer part and the thousandths *)
HalfEvenRounded(mag, frac) ==
  IF NearestThousandth(frac) = 1000
    THEN [mag |-> Canon(MagInc(mag)), th |-> 0]
    ELSE [mag |-> mag, th |-> NearestThousandth(frac)]

(* what is written before the first "." without the sign, and after the    *)
(* last "."                                                                *)
IntegerText(out) ==
  SubSeq(out, IF Head(out) = "-" THEN 2 ELSE 1, Index(out, ".") - 1)

RECURSIVE FractionText(_)
FractionText(out) ==
  IF Contains(out, ".")
    THEN FractionText(SubSeq(out, Index(out, ".") + 1, Len(out)))
    ELSE out

C12_DecimalRange ==
  op = "SerDecimal" =>
    /\ serialized.st \in {"ok", "err"}
    /\ serialized.st = "err"
         <=> Len(HalfEvenRounded(inputValue.n, inputValue.frac).mag) > 12

---------------------------------------------------------------------------
(* Properties of scalars *)

(* a string between double quotes, each DQUOTE and backslash of it after a *)
(* backslash                                                               *)
RECURSIVE Escaped(_)
Escaped(text) ==
  IF text = <<>> THEN <<>>
  ELSE IF Head(text) \in {"\"", "\\"}
    THEN <<"\\", Head(text)>> \o Escaped(Tail(text))
  ELSE <<Head(text)>> \o Escaped(Tail(text))

Quoted(text) == <<"\"">> \o Escaped(text) \o <<"\"">>

(* C13: a Token and a String are distinct to the serializer.  SerBareItem  *)
(* of a token, as ParseToken returns it, writes the token text without     *)
(* quotes; SerBareItem of a string writes it between double quotes.        *)
C13_TokenIsNotString ==
  /\ op = "SerBareItemOfToken" => serialized = SOk(parsed.val.s)
  /\ op = "SerBareItemOfString" => serialized = SOk(Quoted(inputValue.s))

(* C14: string escaping round-trips.  For a string of characters in        *)
(* 0x20-0x7E, SerString writes DQUOTE, the string with a backslash before  *)
(* each DQUOTE and backslash, DQUOTE; ParseString of that returns the      *)
(* string and leaves no input.                                             *)
C14_StringRoundTrip ==
  /\ op \in {"SerString", "ParseStringBack"} =>
       serialized = SOk(Quoted(inputValue.s))
  /\ op = "ParseStringBack" =>
       /\ parsed.st = "ok"
       /\ parsed.val = inputValue
       /\ parsed.rest = <<>>

(* the string a"\ was written as "a\"\\" and parsed back *)
C14_EscapesParsedBack ==
  /\ op = "ParseStringBack"
  /\ inputValue = StrV(<<"a", "\"", "\\">>)
  /\ inputBytes = <<"\"", "a", "\\", "\"", "\\", "\\", "\"">>
  /\ parsed = Ok(inputValue, <<>>)

---------------------------------------------------------------------------
(* Properties of a serialization that fails *)

KeyFails(key) == SerKey(key).st # "ok"

BareItemFails(bareItem) == SerBareItem(bareItem).st # "ok"

ParametersFail(parameters) ==
  \E i \in 1..Len(parameters) :
    KeyFails(parameters[i].A) \/ BareItemFails(parameters[i].B)

ItemFails(item) == BareItemFails(item.A) \/ ParametersFail(item.B)

MemberFails(member) ==
  IF member.A.t = "InnerList"
    THEN \/ \E i \in 1..Len(member.A.items) : ItemFails(member.A.items[i])
         \/ ParametersFail(member.B)
    ELSE ItemFails(member)

(* a key, a bare item, a parameter or a member of the structure fails *)
NestedFails(input) ==
  IF input.t = "Item" THEN ItemFails(input.item)
  ELSE IF input.t = "List"
    THEN \E i \in 1..Len(input.list) : MemberFails(input.list[i])
  ELSE \E i \in 1..Len(input.dict) :
         KeyFails(input.dict[i].A) \/ MemberFails(input.dict[i].B)

(* C15: serialization is all-or-nothing.  When a key, a bare item, a       *)
(* parameter or a member nested in the structure fails to serialize,       *)
(* TextSerialize returns an error and nil bytes.                           *)
C15_SerializeAllOrNothing ==
  op = "TextSerializeNested" /\ NestedFails(inputValue) =>
    serialized = SRet("err", TRUE, <<>>)

---------------------------------------------------------------------------
(* Properties of calls at the same time *)

(* the inputString of a call that runs alone on in as type, when it is at  *)
(* pc, alone being what steps 2 to 5 return                                *)
AloneCursor(pc, in, alone) ==
  IF pc \in {"idle", "step1"} THEN <<>>
  ELSE IF pc = "step2" THEN in
  ELSE IF pc = "step3" THEN TrimLeft(in, SP)
  ELSE IF pc \in {"err", "step6"} THEN alone.rest
  ELSE IF pc = "step7" THEN TrimLeft(alone.rest, SP)
  ELSE IF alone.st = "ok" THEN TrimLeft(alone.rest, SP)
  ELSE alone.rest

AloneOutput(pc, alone) ==
  IF pc \in {"idle", "step1", "step2", "step3"} THEN NoParse ELSE alone

AsAlone(call, alone) ==
  /\ call.inputString = AloneCursor(call.pc, call.inputBytes, alone)
  /\ call.output = AloneOutput(call.pc, alone)
  /\ call.result = IF call.pc = "done"
                     THEN TextParse(call.inputBytes, call.fieldType)
                     ELSE NoParse

(* C16: two calls of TextParse at the same time are independent.  In any   *)
(* interleaving of their steps each call returns the result it returns     *)
(* when it runs alone on its input, and at every step its cursor and its   *)
(* output are those of the call running alone: no step of the other call   *)
(* has written them.                                                       *)
C16_CallsIndependent ==
  \A c \in CallIds :
    AsAlone(calls[c], TextParseDispatch(calls[c].inputBytes, calls[c].fieldType))

(* both calls have returned, the second started while the first was in     *)
(* progress, one with a list and one with an error                         *)
C16_BothReturned ==
  /\ calls[1].pc = "done" /\ calls[2].pc = "done"
  /\ calls[2].overlap
  /\ calls[1].inputBytes = <<"1", ",", " ", "a">> /\ calls[1].fieldType = "list"
  /\ calls[1].result.st = "ok"
  /\ calls[2].inputBytes = <<"1", " ", "x">> /\ calls[2].fieldType = "item"
  /\ calls[2].result.st = "err"

---------------------------------------------------------------------------
(* Properties of Fetch *)

ExactlyOneSet(result) == (result.Response = "nil") # (result.Err = "nil")

---------------------------------------------------------------------------
(* Properties of header names *)

(* the HTTP token characters: letters, digits and !#$%&'*+-.^_`|~ *)
HttpTokenChars ==
  {"!", "#", "$", "%", "&", "'", "*", "+", "-", ".", "^", "_", "GRAVE",
   "|", "~"}
    \cup {"0","1","2","3","4","5","6","7","8","9"}
    \cup LCALPHA \cup UCALPHA

IsHttpToken(name) ==
  name # <<>> /\ \A i \in 1..Len(name) : name[i] \in HttpTokenChars

(* C18: a header name is accepted if and only if it is non-empty and each  *)
(* byte of it is an HTTP token character; accepted, it is returned as it   *)
(* is with no error; the empty name and a name with a space, a colon, CR   *)
(* or LF are rejected with an error and a nil name.                        *)
C18_HeaderNameIsToken ==
  op = "newConceptHeaderName" =>
    /\ IsHttpToken(inputBytes) <=> serialized.st = "ok"
    /\ serialized = IF IsHttpToken(inputBytes)
                      THEN SRet("ok", FALSE, inputBytes)
                      ELSE SRet("err", TRUE, <<>>)
    /\ (inputBytes = <<>>
          \/ \E i \in 1..Len(inputBytes) : inputBytes[i] \in {" ", ":", "\r", "\n"})
         => serialized.st = "err"

(* the name a-Z is accepted *)
C18_NameAccepted ==
  /\ op = "newConceptHeaderName"
  /\ inputBytes = <<"a", "-", "Z">>
  /\ serialized = SRet("ok", FALSE, <<"a", "-", "Z">>)

---------------------------------------------------------------------------
(* Properties of ParseBareItem and ParseKey *)

(* the parser the first character selects: number, string, token, byte     *)
(* sequence, boolean, or none                                              *)
ParserFor(char) ==
  IF char \in DIGIT \cup {"-"} THEN "number"
  ELSE IF char = "\"" THEN "string"
  ELSE IF char \in LCALPHA \cup UCALPHA \cup {"*"} THEN "token"
  ELSE IF char = ":" THEN "binary"
  ELSE IF char = "?" THEN "boolean"
  ELSE "none"

(* C19: ParseBareItem dispatches on the first remaining character alone:   *)
(* "-" or a digit to the number parser, DQUOTE to the string parser, a     *)
(* letter of either case or "*" to the token parser, ":" to the byte       *)
(* sequence parser, "?" to the boolean parser; it fails on any other.      *)
C19_BareItemDispatch ==
  op = "ParseBareItem" /\ inputBytes # <<>> =>
    /\ ParserFor(Head(inputBytes)) = "number" => parsed = ParseNumber(inputBytes)
    /\ ParserFor(Head(inputBytes)) = "string" => parsed = ParseString(inputBytes)
    /\ ParserFor(Head(inputBytes)) = "token" => parsed = ParseToken(inputBytes)
    /\ ParserFor(Head(inputBytes)) = "binary" => parsed = ParseBinary(inputBytes)
    /\ ParserFor(Head(inputBytes)) = "boolean" => parsed = ParseBoolean(inputBytes)
    /\ ParserFor(Head(inputBytes)) = "none" => parsed.st = "err"

(* the characters of a key *)
KeyChars ==
  LCALPHA \cup {"0","1","2","3","4","5","6","7","8","9"} \cup {"_", "-", ".", "*"}

(* the length of the longest prefix of text made of characters of set *)
RECURSIVE PrefixLen(_, _)
PrefixLen(text, set) ==
  IF text = <<>> \/ Head(text) \notin set THEN 0
  ELSE 1 + PrefixLen(Tail(text), set)

(* C20: ParseKey fails when the first character is not a lower-case letter *)
(* or "*".  Otherwise it returns the longest prefix of lower-case letters, *)
(* digits, "_", "-", "." and "*" and leaves what follows it: the key is    *)
(* not empty, and the first character left, if any, is no key character.   *)
C20_KeyIsLongestPrefix ==
  op = "ParseKey" =>
    IF inputBytes = <<>> \/ Head(inputBytes) \notin LCALPHA \cup {"*"}
      THEN parsed.st = "err"
      ELSE /\ parsed.st = "ok"
           /\ parsed.val = SubSeq(inputBytes, 1, PrefixLen(inputBytes, KeyChars))
           /\ parsed.rest = SubSeq(inputBytes, PrefixLen(inputBytes, KeyChars) + 1,
                                   Len(inputBytes))
           /\ parsed.val # <<>>
           /\ parsed.rest # <<>> => Head(parsed.rest) \notin KeyChars

---------------------------------------------------------------------------
(* Properties of decimal literals *)

(* C21: ParseNumber accepts a decimal literal if and only if it has 1 to   *)
(* 12 integer digits, one "." and 1 to 3 fraction digits: a literal that   *)
(* ends in ".", one with 4 fraction digits or more and one with a "."      *)
(* after more than 12 integer digits fail.                                 *)
C21_DecimalLiteral ==
  op = "ParseDecimal" =>
    (parsed.st = "ok" /\ parsed.val.t = "float64" /\ parsed.rest = <<>>)
      <=> /\ built.dots = 1
          /\ built.intDigits \in 1..12
          /\ built.fracDigits \in 1..3

---------------------------------------------------------------------------
(* Properties of parameters *)

(* the input is one parameter that is a key alone *)
KeyAlone == Len(built.pieces) = 1 /\ built.pieces[1].text = <<>>

(* C22: a parameter key that "=" does not follow, whether another          *)
(* character or the end of the input does, gets the value true in          *)
(* ParseParam, and SerParams writes a parameter of value true as ";" and   *)
(* the key with no "=": the parameter round-trips.                         *)
C22_BareKeyIsTrue ==
  /\ op \in {"ParseParam", "SerParamsBack"} /\ KeyAlone =>
       parsed = Ok(<<T2(built.pieces[1].key, BoolV(TRUE))>>, built.end)
  /\ op = "SerParamsBack" /\ KeyAlone =>
       serialized = SOk(<<";">> \o built.pieces[1].key)

(* C23: the Parameters ParseParam returns never hold a key twice: a        *)
(* repeated key overwrites the entry in place, so that the entries are in  *)
(* the order of the first occurrence of each key and hold the value of its *)
(* last occurrence.                                                        *)
C23_ParametersUpsert ==
  op = "ParseParam" /\ parsed.st = "ok" =>
    /\ \A i, j \in 1..Len(parsed.val) :
         i # j => parsed.val[i].A # parsed.val[j].A
    /\ [i \in 1..Len(parsed.val) |-> parsed.val[i].A]
         = FirstOccurrences(built.pieces, {})
    /\ \A i \in 1..Len(parsed.val) :
         parsed.val[i].B = LastOccurrence(built.pieces, parsed.val[i].A).value

(* ;a=1;b;a=?0 and a space gave a false, b true *)
C23_RepeatedKeyOverwritten ==
  /\ op = "ParseParam"
  /\ inputBytes = <<";", "a", "=", "1", ";", "b", ";", "a", "=", "?", "0", " ">>
  /\ parsed = Ok(<<T2(<<"a">>, BoolV(FALSE)), T2(<<"b">>, BoolV(TRUE))>>, <<" ">>)

---------------------------------------------------------------------------
(* Properties of SerList *)

(* the items of an inner list, a space between two of them *)
RECURSIVE ItemsText(_)
ItemsText(items) ==
  IF items = <<>> THEN <<>>
  ELSE SerItem(Head(items).A, Head(items).B).out
         \o (IF Len(items) > 1 THEN <<" ">> ELSE <<>>)
         \o ItemsText(Tail(items))

MemberText(member) ==
  IF member.A.t = "InnerList"
    THEN <<"(">> \o ItemsText(member.A.items) \o <<")">> \o SerParams(member.B).out
    ELSE SerItem(member.A, member.B).out

(* the members, a comma and a space between two of them *)
RECURSIVE ListText(_)
ListText(members) ==
  IF members = <<>> THEN <<>>
  ELSE MemberText(Head(members))
         \o (IF Len(members) > 1 THEN <<",", " ">> ELSE <<>>)
         \o ListText(Tail(members))

(* C24: SerList writes ", " between every two consecutive members and      *)
(* nothing after the last, items and inner lists alike; an inner list is   *)
(* written "(", its items with single spaces between them, ")" and its     *)
(* parameters.                                                             *)
C24_ListJoined ==
  op = "SerList" => serialized = SOk(ListText(inputValue.list))

---------------------------------------------------------------------------
(* Properties of ParseInnerList *)

(* what the call consumed of its input *)
Consumed == SubSeq(inputBytes, 1, Len(inputBytes) - Len(parsed.rest))

(* C25: ParseInnerList returns an inner list only when it found the        *)
(* closing ")".  When the end of the input is reached before a ")", as in  *)
(* "(1", "(a " and "(", it fails with an error; and so it does when what   *)
(* follows an item is neither a space nor ")".                             *)
C25_InnerListClosed ==
  op = "ParseInnerList" =>
    /\ parsed.st = "ok" => Contains(Tail(Consumed), ")")
    /\ ~Contains(inputBytes, ")") => parsed.st = "err"

---------------------------------------------------------------------------
(* Properties of ParseBinary *)

(* the characters of base64 without the padding *)
Base64Letters == LCALPHA \cup UCALPHA
                   \cup {"0","1","2","3","4","5","6","7","8","9"} \cup {"+", "/"}

(* content with the "=" it lacks to be whole quanta of four *)
Padded(content) == content \o Repeat("=", (4 - (Len(content) % 4)) % 4)

(* C26: ParseBinary synthesizes the padding that is missing: content of    *)
(* base64 characters the length of which is no multiple of 4, valid        *)
(* otherwise, decodes to the bytes of its padded form.  Content with a     *)
(* character outside A-Z, a-z, 0-9, "+", "/", "=" fails, and so does a     *)
(* content that no ":" closes.                                             *)
C26_PaddingSynthesized ==
  op = "ParseBinary" =>
    /\ ~built.closed => parsed.st = "err"
    /\ (\E i \in 1..Len(built.content) :
          built.content[i] \notin Base64Letters \cup {"="}) => parsed.st = "err"
    /\ (/\ built.closed
        /\ \A i \in 1..Len(built.content) : built.content[i] \in Base64Letters
        /\ Len(built.content) % 4 \in {2, 3})
         => parsed = Ok(BytesV(B64Decode(Padded(built.content)).bytes), <<>>)

---------------------------------------------------------------------------
(* Properties of header lists *)

(* the header named is in the list *)
Named == \E i \in 1..Len(built.list) : built.list[i].Name = built.name

(* C27: GetStructuredHeader returns nil when the header named is not in    *)
(* the list, nil when parsing its value as the type asked for fails, and   *)
(* what TextParse returned otherwise; on a malformed value it neither      *)
(* aborts nor returns a value in part.                                     *)
C27_NilOrParsed ==
  op = "GetStructuredHeader" =>
    /\ parsed.st = "ok"
    /\ ~Named => parsed.val = NilV
    /\ Named /\ TextParse(inputBytes, fieldType).st # "ok" => parsed.val = NilV
    /\ Named /\ TextParse(inputBytes, fieldType).st = "ok" =>
         parsed.val = TextParse(inputBytes, fieldType).val
    /\ parsed.subErr => parsed.val = NilV

---------------------------------------------------------------------------
(* Properties of the loops *)

(* C28: a call of TextParse terminates.  A turn of a parsing loop (list,   *)
(* dictionary, inner list, parameters, key, number, string, token) returns *)
(* or leaves the input shorter than it was when the turn started, so that  *)
(* a loop takes no more turns than its input has characters.  A turn that  *)
(* ends in a panic ends the call, and has consumed input as well.          *)
C28_EveryTurnConsumes ==
  op = "Turn" =>
    /\ parsed.next # "return" => Len(parsed.rest) < Len(inputBytes)
    /\ built.turns <= Len(built.first)

(* the loop of ParseList on 1,1 in its second turn, which returns *)
C28_SecondTurn ==
  /\ op = "Turn"
  /\ built = [loop |-> "list", first |-> <<"1", ",", "1">>, turns |-> 2]
  /\ inputBytes = <<"1">>
  /\ parsed.next = "return"

---------------------------------------------------------------------------
(* Properties of Headers *)

Writes == {"Set", "Append", "Delete"}

(* what the calls of log leave for a name: the value of the last Set or    *)
(* Append of the name when no Delete of the name comes after it            *)
RECURSIVE LatestWrite(_, _)
LatestWrite(log, name) ==
  IF log = <<>> THEN [isNil |-> TRUE, value |-> <<>>]
  ELSE IF log[Len(log)].method \in Writes /\ log[Len(log)].name = name
    THEN IF log[Len(log)].method = "Delete"
           THEN [isNil |-> TRUE, value |-> <<>>]
           ELSE [isNil |-> FALSE, value |-> log[Len(log)].value]
  ELSE LatestWrite(SubSeq(log, 1, Len(log) - 1), name)

(* C29: Get of a name returns the value of the latest Set or Append of     *)
(* the name when no Delete of the name came after it, and nil otherwise;   *)
(* a Set, an Append or a Delete leaves the entries of the other names as   *)
(* they were; the map Iterable returned holds what it held when it was     *)
(* returned, whatever is called afterwards.                                *)
C29_HeadersFrame ==
  op = "Headers" =>
    /\ \A name \in HeaderNames :
         HeadersGet(built.h, name) = LatestWrite(built.log, name)
    /\ built.last.method \in {"Set", "Append"} =>
         HeadersGet(built.h, built.last.name)
           = [isNil |-> FALSE, value |-> built.last.value]
    /\ built.last.method = "Delete" =>
         HeadersGet(built.h, built.last.name).isNil
    /\ built.last.method \in Writes =>
         \A name \in HeaderNames \ {built.last.name} :
           HeadersGet(built.h, name) = HeadersGet(built.before, name)
    /\ built.last.method \notin Writes \cup {"NewHeaders"} =>
         built.h = built.before
    /\ built.last.method = "Get" =>
         built.got = HeadersGet(built.before, built.last.name)
    /\ built.iterable.taken =>
         MapNow(built.iterable.iterable, built.h) = built.snapshot

(* a has been deleted after b was set and the map of Iterable was taken:   *)
(* b is still there and the map still has a                                *)
C29_DeletedAfterSnapshot ==
  /\ op = "Headers"
  /\ built.last = [method |-> "Delete", name |-> <<"a">>, value |-> <<>>]
  /\ built.iterable.taken
  /\ <<"a">> \in DOMAIN built.snapshot
  /\ ~HeadersGet(built.h, <<"b">>).isNil

---------------------------------------------------------------------------
(* Properties of the remaining input *)

IsSuffix(rest, input) ==
  /\ Len(rest) <= Len(input)
  /\ rest = SubSeq(input, Len(input) - Len(rest) + 1, Len(input))

(* C30: what remains of the input during a call of TextParse is a suffix   *)
(* of the input.  The parsers take characters from the front only, and the *)
(* character ParseNumber puts back is the one it took last: when its loop  *)
(* stops at a character that is neither a digit nor ".", the input is what *)
(* it was at the start of the turn.                                        *)
C30_RemainingIsSuffix ==
  /\ \A c \in CallIds : IsSuffix(calls[c].inputString, calls[c].inputBytes)
  /\ op \in {"ParseBinary", "ParseToken"} => IsSuffix(parsed.rest, inputBytes)
  /\ op = "Turn" =>
       /\ IsSuffix(parsed.rest, inputBytes)
       /\ IsSuffix(inputBytes, built.first)
       /\ built.loop = "number" /\ Head(inputBytes) \notin DIGIT \cup {"."} =>
            parsed = TurnRet("return", inputBytes, NoAcc)

(* the loop of ParseNumber on 1a in its second turn: a is put back *)
C30_PutBack ==
  /\ op = "Turn"
  /\ built = [loop |-> "number", first |-> <<"1", "a">>, turns |-> 2]
  /\ parsed.rest = <<"a">>

====
